---- MODULE Spec2Model ----
(***************************************************************************)
(* A model of the becs archetype ECS world (src/src/world.rs,              *)
(* src/src/archetype.rs, src/src/bundle.rs, src/src/blob_data.rs).         *)
(*                                                                         *)
(* Conventions                                                             *)
(*  - Vec<T> is a TLA+ sequence; the code's 0-based index i is element     *)
(*    i+1 of the sequence (operator At).                                   *)
(*  - A u64 bitmask is the set of its set bit positions: x | y is          *)
(*    x \cup y, x & y is x \cap y, x & !y is x \ y, 0 is {}.                *)
(*  - Option<T> is a sequence of length 0 (None) or 1 (Some).              *)
(*  - The archetype back-map `rows` holds what the callers push into it:   *)
(*    world.rs and bundle.rs push a usize and index the entity table with  *)
(*    what swap_remove / move_to hand back.                                *)
(*  - A component value is a small integer; a column (BlobData) is the     *)
(*    sequence of its `len` initialised slots.  Reading a slot at or       *)
(*    beyond `len` reads memory the column never initialised: Uninit.      *)
(*  - A panic ends the program: status becomes "panic" and nothing runs    *)
(*    afterwards.  A BlobData operation called outside its safety          *)
(*    precondition (swap_remove / write at index >= len) is undefined      *)
(*    behaviour: status becomes "ub" and nothing is modelled afterwards.   *)
(***************************************************************************)
EXTENDS Integers, Sequences, FiniteSets, TLC

\* ------------------------------------------------------------------ bounds
\* Component types the driver uses.
Types == {"A", "B"}
\* The entity table never grows beyond MaxEntities slots.
MaxEntities == 3
\* The driver runs at most MaxOps operations.
MaxOps == 5

\* usize::MAX, the sentinel of Location::EMPTY: larger than every index.
UsizeMax == 2147483647

VARIABLES
    bitmap,         \* World.bitmap: TypeId -> bit
    next_bitmask,   \* World.next_bitmask
    archetype_map,  \* World.archetype_map: bitmask -> archetype index
    archetypes,     \* World.archetypes: Vec<Archetype>
    metas,          \* World.entities.metas: Vec<EntityMeta>
    free,           \* World.entities.free: Vec<usize>
    cache,          \* World.cache: (required, exclusion) -> CacheEntry
    borrows,        \* the borrow counter of each column: (archetype, TypeId) -> counter
    status,         \* "ok", or how the program ended: "panic", "ub",
                    \* "unspecified" (a borrow released that nobody holds)
    handles,        \* history: the Entity handles spawn / spawn_empty returned
    stored,         \* history: per handle, the component values the caller gave it
    ops             \* history: how many operations have run

vars == <<bitmap, next_bitmask, archetype_map, archetypes, metas, free,
          cache, borrows, status, handles, stored, ops>>

\* The World value (`self` of the methods of world.rs) in the current state.
World ==
    [bitmap |-> bitmap, next_bitmask |-> next_bitmask,
     archetype_map |-> archetype_map, archetypes |-> archetypes,
     metas |-> metas, free |-> free]

\* ----------------------------------------------------------------- helpers
None == <<>>
Some(x) == <<x>>
IsSome(o) == Len(o) = 1
Unwrap(o) == o[1]

\* seq[i] of the code (0-based)
At(seq, i) == seq[i + 1]
\* Vec::get
Get(seq, i) == IF i >= 0 /\ i < Len(seq) THEN Some(seq[i + 1]) ELSE None
\* Vec::pop's remaining vector
PopBack(seq) == SubSeq(seq, 1, Len(seq) - 1)
\* seq with the code's seq[i] set to x
SetAt(seq, i, x) == [seq EXCEPT ![i + 1] = x]
\* Vec::swap
Swap(seq, i, j) == [seq EXCEPT ![i + 1] = seq[j + 1], ![j + 1] = seq[i + 1]]
\* a function extended / overwritten at one key (HashMap::insert)
MapInsert(f, k, v) == [x \in DOMAIN f \cup {k} |-> IF x = k THEN v ELSE f[x]]

\* What a read of a column slot at or beyond `len` yields: bytes the column
\* never initialised, which are no component value (values are 1, 2, ...).
Uninit == 0

\* Location::EMPTY
EMPTY == [archetype |-> UsizeMax, row |-> UsizeMax]
Location(a, r) == [archetype |-> a, row |-> r]
Entity(i, g) == [index |-> i, generation |-> g]

\* ------------------------------------------------------------ blob_data.rs
\* BlobData::push_bytes
push_bytes(col, v) == Append(col, v)

\* BlobData::swap_remove, inside its precondition index < len
blob_swap_remove(col, index) ==
    IF index = Len(col) - 1
        THEN PopBack(col)
        ELSE PopBack(Swap(col, index, Len(col) - 1))

\* BlobData::get_bytes followed by the caller's read of the slot
blob_read(col, index) ==
    IF index < Len(col) THEN At(col, index) ELSE Uninit

\* ------------------------------------------------------------ archetype.rs
\* Archetype::new
ArchetypeNew(bitmask) ==
    [columns |-> <<>>, rows |-> <<>>, count |-> 0, bitmask |-> bitmask]

\* Archetype::with
with(arch, id) ==
    IF id \in DOMAIN arch.columns
        THEN arch
        ELSE [arch EXCEPT !.columns = MapInsert(@, id, <<>>)]

\* Archetype::insert_bytes
insert_bytes(arch, id, v) ==
    IF id \in DOMAIN arch.columns
        THEN [arch EXCEPT !.columns[id] = push_bytes(@, v)]
        ELSE arch

\* Archetype::insert_row
insert_row(arch, entity) ==
    [arch EXCEPT !.count = @ + 1, !.rows = Append(@, entity)]

\* Archetype::swap_remove: the archetype afterwards, the entry of the back-map
\* it returns, and whether a column was asked to remove a slot it does not
\* have (BlobData::swap_remove outside its precondition).
swap_remove(arch, index) ==
    IF index >= arch.count
        THEN [arch |-> arch, moved |-> None, ub |-> FALSE]
        ELSE LET columns == [id \in DOMAIN arch.columns |->
                                IF index < Len(arch.columns[id])
                                    THEN blob_swap_remove(arch.columns[id], index)
                                    ELSE arch.columns[id]]
                 ub == \E id \in DOMAIN arch.columns : index >= Len(arch.columns[id])
                 count == arch.count - 1
             IN  IF index = count
                    THEN [arch  |-> [arch EXCEPT !.columns = columns,
                                                 !.count = count,
                                                 !.rows = PopBack(arch.rows)],
                          moved |-> None,
                          ub    |-> ub]
                    ELSE LET swapped == Swap(arch.rows, index, count - 1)
                         IN  [arch  |-> [arch EXCEPT !.columns = columns,
                                                     !.count = count,
                                                     !.rows = PopBack(swapped)],
                              moved |-> Some(swapped[Len(swapped)]),
                              ub    |-> ub]

\* Archetype::move_to: as swap_remove, but the removed bytes are not dropped:
\* `taken` is what the callback is handed for each column.
move_to(arch, index) ==
    IF index >= arch.count
        THEN [arch |-> arch, moved |-> None, ub |-> FALSE, taken |-> <<>>]
        ELSE LET columns == [id \in DOMAIN arch.columns |->
                                IF index < Len(arch.columns[id])
                                    THEN blob_swap_remove(arch.columns[id], index)
                                    ELSE arch.columns[id]]
                 taken == [id \in DOMAIN arch.columns |->
                                blob_read(arch.columns[id], index)]
                 ub == \E id \in DOMAIN arch.columns : index >= Len(arch.columns[id])
                 count == arch.count - 1
             IN  IF index = count
                    THEN [arch  |-> [arch EXCEPT !.columns = columns,
                                                 !.count = count,
                                                 !.rows = PopBack(arch.rows)],
                          moved |-> None,
                          ub    |-> ub,
                          taken |-> taken]
                    ELSE LET swapped == Swap(arch.rows, index, count - 1)
                         IN  [arch  |-> [arch EXCEPT !.columns = columns,
                                                     !.count = count,
                                                     !.rows = PopBack(swapped)],
                              moved |-> Some(swapped[Len(swapped)]),
                              ub    |-> ub,
                              taken |-> taken]

\* Archetype::get_bytes followed by the caller's read through the pointer
get_bytes(arch, typeid, row) ==
    IF typeid \notin DOMAIN arch.columns
        THEN None
        ELSE IF arch.count > row
                THEN Some(blob_read(arch.columns[typeid], row))
                ELSE None

\* ---------------------------------------------------- world.rs: accessors
\* Every method of World is an operator whose first parameter w is `self`.

\* is_alive without the generation check: any handle whose index is in range
is_alive_any_generation(w, entity) == entity.index < Len(w.metas)

\* World::is_alive
is_alive(w, entity) ==
    IF entity.index < Len(w.metas)
        THEN At(w.metas, entity.index).generation = entity.generation
        ELSE FALSE

\* World::is_empty
is_empty(w, entity) ==
    IF entity.index < Len(w.metas)
        THEN At(w.metas, entity.index).location = EMPTY
        ELSE TRUE

\* World::archetype_of
archetype_of(w, entity) ==
    IF entity.index < Len(w.metas)
        THEN Get(w.archetypes, At(w.metas, entity.index).location.archetype)
        ELSE None

\* World::bit_of
bit_of(w, T) == IF T \in DOMAIN w.bitmap THEN Some(w.bitmap[T]) ELSE None

\* World::has_component
has_component(w, T, entity) ==
    LET source_archetype == archetype_of(w, entity)
    IN  IF ~IsSome(source_archetype)
            THEN FALSE
            ELSE IF ~IsSome(bit_of(w, T))
                    THEN FALSE
                    ELSE (Unwrap(source_archetype).bitmask
                            \cap Unwrap(bit_of(w, T))) # {}

\* World::get_component and World::get_component_mut (the same lookup)
get_component(w, T, entity) ==
    IF ~is_alive(w, entity)
        THEN None
        ELSE LET meta == At(w.metas, entity.index)
                 archetype == Get(w.archetypes, meta.location.archetype)
             IN  IF ~IsSome(archetype)
                    THEN None
                    ELSE get_bytes(Unwrap(archetype), T, meta.location.row)

\* ----------------------------------------------------- world.rs: Entities
\* Entities::create reading the last free slot without popping it
create_keep_free(w) ==
    IF w.free # <<>>
        THEN LET slot == w.free[Len(w.free)]
             IN  [metas  |-> SetAt(w.metas, slot,
                                [At(w.metas, slot) EXCEPT !.location = EMPTY]),
                  free   |-> w.free,
                  entity |-> Entity(slot, At(w.metas, slot).generation)]
        ELSE [metas  |-> Append(w.metas, [generation |-> 0, location |-> EMPTY]),
              free   |-> w.free,
              entity |-> Entity(Len(w.metas), 0)]

\* Entities::create: the entity table and free-list afterwards, and the handle
create(w) ==
    IF w.free # <<>>
        THEN LET slot == w.free[Len(w.free)]
             IN  [metas  |-> SetAt(w.metas, slot,
                                [At(w.metas, slot) EXCEPT !.location = EMPTY]),
                  free   |-> PopBack(w.free),
                  entity |-> Entity(slot, At(w.metas, slot).generation)]
        ELSE [metas  |-> Append(w.metas, [generation |-> 0, location |-> EMPTY]),
              free   |-> w.free,
              entity |-> Entity(Len(w.metas), 0)]

\* ------------------------------------------------ world.rs: registration
\* 1_u64 << n
Bit(n) == {n}

\* The width of the u64 bitmask and the largest value of the u8 next_bitmask
U64Bits == 64
U8Max == 255

\* 1_u64 << n.  For n >= 64 the shift overflows: a build with overflow checks
\* (the dev profile) panics, None; a build without them (the release
\* profile) masks the shift amount to the width.
shl_one(n, overflow_checks) ==
    IF n < U64Bits
        THEN Some(Bit(n))
        ELSE IF overflow_checks THEN None ELSE Some(Bit(n % U64Bits))

\* World::register_component as a build with or without overflow checks runs
\* it: how it ended, the world afterwards and the bit returned
register_component_build(w, T, overflow_checks) ==
    IF T \in DOMAIN w.bitmap
        THEN [status |-> "ok", world |-> w, bit |-> w.bitmap[T]]
        ELSE LET bit == shl_one(w.next_bitmask, overflow_checks)
             IN  IF ~IsSome(bit) \/ (overflow_checks /\ w.next_bitmask + 1 > U8Max)
                    THEN [status |-> "panic", world |-> w, bit |-> {}]
                    ELSE [status |-> "ok",
                          world  |-> [w EXCEPT
                                        !.bitmap = MapInsert(@, T, Unwrap(bit)),
                                        !.next_bitmask = (@ + 1) % (U8Max + 1)],
                          bit    |-> Unwrap(bit)]

\* World::register_component where the callers of this model use it: they
\* register the types of Types, fewer than U64Bits, so the shift does not
\* overflow and every build computes the same.  The world afterwards and the
\* bit returned.
register_component(w, T) ==
    LET r == register_component_build(w, T, TRUE)
    IN  [world |-> r.world, bit |-> r.bit]

\* --------------------------------------------------------------- bundle.rs
\* A bundle is a tuple of component values of distinct types, in the order
\* the caller wrote them: a sequence of [type, value].  BundlesOf(v) are the
\* bundles whose components all hold the value v.
BundlesOf(v) ==
    { b \in UNION { [1..n -> [type : Types, value : {v}]] :
                        n \in 1..Cardinality(Types) } :
        \A i, j \in DOMAIN b : i # j => b[i].type # b[j].type }
BundleTypes(b) == { b[i].type : i \in DOMAIN b }
BundleValue(b, T) == b[CHOOSE i \in DOMAIN b : b[i].type = T].value

\* Bundle::register: register_component for each element, in tuple order
RECURSIVE bundle_register(_, _)
bundle_register(w, b) ==
    IF b = <<>>
        THEN w
        ELSE bundle_register(register_component(w, Head(b).type).world, Tail(b))

\* Bundle::bitmask
bundle_bitmask(w, b) == UNION { Unwrap(bit_of(w, b[i].type)) : i \in DOMAIN b }

\* The first loop of Bundle::put: archetype.with for each element
RECURSIVE put_with(_, _)
put_with(arch, b) ==
    IF b = <<>> THEN arch ELSE put_with(with(arch, Head(b).type), Tail(b))

\* The second loop of Bundle::put: archetype.insert for each element
RECURSIVE put_insert(_, _)
put_insert(arch, b) ==
    IF b = <<>>
        THEN arch
        ELSE put_insert(insert_bytes(arch, Head(b).type, Head(b).value), Tail(b))

\* Bundle::put
put(b, row, arch) == insert_row(put_insert(put_with(arch, b), b), row)

\* --------------------------------------------------- world.rs: operations
\* The result of a &mut self method: how it ended, the world it leaves, and
\* the handle it returned (for the others: the handle it was called with).
\* A method that panics or runs into undefined behaviour ends the program:
\* the world is not observed afterwards and is reported as it was.
Returns(w, entity) == [status |-> "ok", world |-> w, entity |-> entity]
Panics(w, entity) == [status |-> "panic", world |-> w, entity |-> entity]
Undefined(w, entity) == [status |-> "ub", world |-> w, entity |-> entity]

\* The callback of move_to in insert_component and remove_component:
\* target.with, target.insert for every column in ids
RECURSIVE move_into(_, _, _)
move_into(target, taken, ids) ==
    IF ids = {}
        THEN target
        ELSE LET id == CHOOSE x \in ids : TRUE
             IN  move_into(insert_bytes(with(target, id), id, taken[id]),
                           taken, ids \ {id})

\* metas with metas[i].location = loc
SetLocation(ms, i, loc) == SetAt(ms, i, [At(ms, i) EXCEPT !.location = loc])

\* spawn_inner that never consults archetype_map: a new archetype per spawn
spawn_inner_always_new(w, bundle, bitmask) ==
    LET c == create(w)
        archetypes1 == Append(w.archetypes, ArchetypeNew(bitmask))
        archetype_idx == Len(archetypes1) - 1
        archetype == At(archetypes1, archetype_idx)
        row == archetype.count
    IN  Returns([w EXCEPT
                   !.archetype_map = MapInsert(w.archetype_map, bitmask, archetype_idx),
                   !.archetypes = SetAt(archetypes1, archetype_idx,
                                        put(bundle, row, archetype)),
                   !.metas = SetLocation(c.metas, c.entity.index,
                                         Location(archetype_idx, row)),
                   !.free = c.free],
                c.entity)

\* World::spawn_inner
spawn_inner(w, bundle, bitmask) ==
    LET c == create(w)
        found == bitmask \in DOMAIN w.archetype_map
        archetypes1 == IF found THEN w.archetypes
                       ELSE Append(w.archetypes, ArchetypeNew(bitmask))
        map1 == IF found THEN w.archetype_map
                ELSE MapInsert(w.archetype_map, bitmask, Len(archetypes1) - 1)
        archetype_idx == IF found THEN w.archetype_map[bitmask]
                         ELSE Len(archetypes1) - 1
    IN  IF archetype_idx >= Len(archetypes1)
            THEN Panics(w, c.entity)
            ELSE LET archetype == At(archetypes1, archetype_idx)
                     row == archetype.count
                 IN  Returns([w EXCEPT
                                !.archetype_map = map1,
                                !.archetypes = SetAt(archetypes1, archetype_idx,
                                                     put(bundle, row, archetype)),
                                !.metas = SetLocation(c.metas, c.entity.index,
                                                      Location(archetype_idx, row)),
                                !.free = c.free],
                             c.entity)

\* World::spawn
spawn(w, bundle) ==
    LET registered == bundle_register(w, bundle)
        bitmask == bundle_bitmask(registered, bundle)
        r == spawn_inner(registered, bundle, bitmask)
    IN  IF r.status = "ok" THEN r ELSE [r EXCEPT !.world = w]

\* World::spawn_empty
spawn_empty(w) ==
    LET c == create(w)
    IN  Returns([w EXCEPT !.metas = c.metas, !.free = c.free], c.entity)

\* World::insert_component, the overwrite branch (world.rs 105-126);
\* w is the world after the registration of T
insert_overwrite(w, entity, T, component) ==
    LET meta == At(w.metas, entity.index)
        source_arch == At(w.archetypes, meta.location.archetype)
    IN  IF T \notin DOMAIN source_arch.columns
            THEN Panics(w, entity)
            ELSE IF meta.location.row >= Len(source_arch.columns[T])
                    THEN Undefined(w, entity)
                    ELSE Returns([w EXCEPT
                                    !.archetypes =
                                        SetAt(@, meta.location.archetype,
                                              [source_arch EXCEPT
                                                 !.columns[T] =
                                                    SetAt(@, meta.location.row,
                                                          component)])],
                                 entity)

\* World::insert_component, after the overwrite check (world.rs 128-224);
\* w is the world after the registration of T, bit is T's bit
insert_move(w, entity, T, component, bit) ==
    LET source_archetype == archetype_of(w, entity)
        meta == At(w.metas, entity.index)
        target_bitmask == IF IsSome(source_archetype)
                            THEN Unwrap(source_archetype).bitmask \cup bit
                            ELSE bit
        found == target_bitmask \in DOMAIN w.archetype_map
        archetypes1 == IF found THEN w.archetypes
                       ELSE Append(w.archetypes, ArchetypeNew(target_bitmask))
        map1 == IF found THEN w.archetype_map
                ELSE MapInsert(w.archetype_map, target_bitmask, Len(archetypes1))
        target_archetype_index == IF found THEN w.archetype_map[target_bitmask]
                                  ELSE Len(archetypes1) - 1
    IN  IF is_empty(w, entity)
        THEN IF target_archetype_index >= Len(archetypes1)
                THEN Panics(w, entity)
                ELSE LET target_archetype == At(archetypes1, target_archetype_index)
                         row == target_archetype.count
                         target1 == insert_row(
                                      insert_bytes(with(target_archetype, T), T, component),
                                      entity.index)
                     IN  Returns([w EXCEPT
                                    !.archetype_map = map1,
                                    !.archetypes = SetAt(archetypes1,
                                                         target_archetype_index, target1),
                                    !.metas = SetLocation(@, entity.index,
                                                Location(target_archetype_index, row))],
                                 entity)
        ELSE LET source_index == meta.location.archetype
             IN  IF \/ source_index = target_archetype_index
                    \/ source_index >= Len(archetypes1)
                    \/ target_archetype_index >= Len(archetypes1)
                 THEN Panics(w, entity)
                 ELSE LET mv == move_to(At(archetypes1, source_index), meta.location.row)
                          target0 == move_into(At(archetypes1, target_archetype_index),
                                               mv.taken, DOMAIN mv.taken)
                          row == target0.count
                          target1 == insert_row(
                                       insert_bytes(with(target0, T), T, component),
                                       entity.index)
                          archetypes2 == SetAt(SetAt(archetypes1, source_index, mv.arch),
                                               target_archetype_index, target1)
                      IN  IF mv.ub
                          THEN Undefined(w, entity)
                          ELSE IF IsSome(mv.moved) /\ Unwrap(mv.moved) >= Len(w.metas)
                          THEN Panics(w, entity)
                          ELSE LET metas1 == IF IsSome(mv.moved)
                                               THEN SetLocation(w.metas, Unwrap(mv.moved),
                                                                meta.location)
                                               ELSE w.metas
                               IN  Returns([w EXCEPT
                                              !.archetype_map = map1,
                                              !.archetypes = archetypes2,
                                              !.metas = SetLocation(metas1, entity.index,
                                                  Location(target_archetype_index, row))],
                                           entity)

\* World::insert_component
insert_component(w, entity, T, component) ==
    IF ~is_alive(w, entity)
        THEN Returns(w, entity)
        ELSE LET reg == register_component(w, T)
                 source_archetype == archetype_of(w, entity)
                 r == IF /\ IsSome(source_archetype)
                         /\ (Unwrap(source_archetype).bitmask \cap reg.bit) = reg.bit
                        THEN insert_overwrite(reg.world, entity, T, component)
                        ELSE insert_move(reg.world, entity, T, component, reg.bit)
             IN  IF r.status = "ok" THEN r ELSE [r EXCEPT !.world = w]

\* World::remove_component, the last-component branch (world.rs 263-271)
remove_last(w, entity) ==
    LET meta == At(w.metas, entity.index)
        r == swap_remove(At(w.archetypes, meta.location.archetype), meta.location.row)
    IN  IF r.ub
            THEN Undefined(w, entity)
            ELSE Returns([w EXCEPT
                            !.archetypes = SetAt(@, meta.location.archetype, r.arch),
                            !.metas = SetLocation(@, entity.index, EMPTY)],
                         entity)

\* World::remove_component, the archetypal move (world.rs 273-322)
remove_move(w, entity, T, combined_bitmask) ==
    LET meta == At(w.metas, entity.index)
        found == combined_bitmask \in DOMAIN w.archetype_map
        archetypes1 == IF found THEN w.archetypes
                       ELSE Append(w.archetypes, ArchetypeNew(combined_bitmask))
        map1 == IF found THEN w.archetype_map
                ELSE MapInsert(w.archetype_map, combined_bitmask, Len(archetypes1) - 1)
        target_archetype_index == IF found THEN w.archetype_map[combined_bitmask]
                                  ELSE Len(archetypes1) - 1
        source_index == meta.location.archetype
    IN  IF \/ source_index = target_archetype_index
           \/ source_index >= Len(archetypes1)
           \/ target_archetype_index >= Len(archetypes1)
        THEN Panics(w, entity)
        ELSE LET mv == move_to(At(archetypes1, source_index), meta.location.row)
                 target0 == move_into(At(archetypes1, target_archetype_index),
                                      mv.taken, DOMAIN mv.taken \ {T})
                 target1 == insert_row(target0, entity.index)
                 archetypes2 == SetAt(SetAt(archetypes1, source_index, mv.arch),
                                      target_archetype_index, target1)
             IN  IF mv.ub
                 THEN Undefined(w, entity)
                 ELSE IF IsSome(mv.moved) /\ Unwrap(mv.moved) >= Len(w.metas)
                 THEN Panics(w, entity)
                 ELSE LET metas1 == IF IsSome(mv.moved)
                                      THEN SetLocation(w.metas, Unwrap(mv.moved),
                                                       meta.location)
                                      ELSE w.metas
                      IN  Returns([w EXCEPT
                                     !.archetype_map = map1,
                                     !.archetypes = archetypes2,
                                     !.metas = SetLocation(metas1, entity.index,
                                         Location(target_archetype_index,
                                                  target1.count - 1))],
                                  entity)

\* World::remove_component without the check that the archetype has T's bit
remove_component_unchecked_bit(w, entity, T) ==
    IF ~is_alive(w, entity) \/ is_empty(w, entity)
        THEN Returns(w, entity)
        ELSE IF T \notin DOMAIN w.bitmap
        THEN Returns(w, entity)
        ELSE LET bit == w.bitmap[T]
                 source_archetype == archetype_of(w, entity)
             IN  IF ~IsSome(source_archetype)
                 THEN Returns(w, entity)
                 ELSE LET combined_bitmask == Unwrap(source_archetype).bitmask \ bit
                      IN  IF combined_bitmask = {}
                            THEN remove_last(w, entity)
                            ELSE remove_move(w, entity, T, combined_bitmask)

\* World::remove_component
remove_component(w, entity, T) ==
    IF ~is_alive(w, entity) \/ is_empty(w, entity)
        THEN Returns(w, entity)
        ELSE IF T \notin DOMAIN w.bitmap
        THEN Returns(w, entity)
        ELSE LET bit == w.bitmap[T]
                 source_archetype == archetype_of(w, entity)
             IN  IF ~IsSome(source_archetype)
                 THEN Returns(w, entity)
                 ELSE IF (Unwrap(source_archetype).bitmask \cap bit) # bit
                 THEN Returns(w, entity)
                 ELSE LET combined_bitmask == Unwrap(source_archetype).bitmask \ bit
                      IN  IF combined_bitmask = {}
                            THEN remove_last(w, entity)
                            ELSE remove_move(w, entity, T, combined_bitmask)

\* World::despawn_entity leaving the slot's generation as it was
despawn_entity_keep_generation(w, entity) ==
    IF entity.index >= Len(w.metas)
        THEN Returns(w, entity)
        ELSE LET meta == At(w.metas, entity.index)
                 location == meta.location
             IN  IF ~is_alive(w, entity)
                 THEN Returns(w, entity)
                 ELSE IF ~IsSome(Get(w.archetypes, meta.location.archetype))
                 THEN Returns(w, entity)
                 ELSE LET r == swap_remove(At(w.archetypes, meta.location.archetype),
                                           meta.location.row)
                      IN  IF r.ub
                          THEN Undefined(w, entity)
                          ELSE IF IsSome(r.moved) /\ Unwrap(r.moved) >= Len(w.metas)
                          THEN Panics(w, entity)
                          ELSE LET metas1 == IF IsSome(r.moved)
                                               THEN SetLocation(w.metas, Unwrap(r.moved),
                                                                location)
                                               ELSE w.metas
                                   metas2 == SetAt(metas1, entity.index,
                                               [generation |->
                                                    At(metas1, entity.index).generation,
                                                location |-> EMPTY])
                               IN  Returns([w EXCEPT
                                              !.archetypes =
                                                  SetAt(@, meta.location.archetype, r.arch),
                                              !.metas = metas2,
                                              !.free = Append(@, entity.index)],
                                           entity)

\* World::despawn_entity
despawn_entity(w, entity) ==
    IF entity.index >= Len(w.metas)
        THEN Returns(w, entity)
        ELSE LET meta == At(w.metas, entity.index)
                 location == meta.location
             IN  IF ~is_alive(w, entity)
                 THEN Returns(w, entity)
                 ELSE IF ~IsSome(Get(w.archetypes, meta.location.archetype))
                 THEN Returns(w, entity)
                 ELSE LET r == swap_remove(At(w.archetypes, meta.location.archetype),
                                           meta.location.row)
                      IN  IF r.ub
                          THEN Undefined(w, entity)
                          ELSE IF IsSome(r.moved) /\ Unwrap(r.moved) >= Len(w.metas)
                          THEN Panics(w, entity)
                          ELSE LET metas1 == IF IsSome(r.moved)
                                               THEN SetLocation(w.metas, Unwrap(r.moved),
                                                                location)
                                               ELSE w.metas
                                   metas2 == SetAt(metas1, entity.index,
                                               [generation |->
                                                    At(metas1, entity.index).generation + 1,
                                                location |-> EMPTY])
                               IN  Returns([w EXCEPT
                                              !.archetypes =
                                                  SetAt(@, meta.location.archetype, r.arch),
                                              !.metas = metas2,
                                              !.free = Append(@, entity.index)],
                                           entity)

\* ------------------------------------------------------------ the driver
\* A handle of another world whose index this world never allocates.
Foreign == Entity(MaxEntities, 0)
\* The handles a caller can pass: those this world returned, and Foreign.
Callable == handles \cup {Foreign}

\* Component values are opaque bytes to the store.  The driver gives every
\* call's components the serial number of the call as their value, so that
\* no two calls store the same value and any mix-up of rows is visible.
Fresh == ops + 1

\* The components a caller has given a handle, as a function type -> value
BundleMap(b) == [T \in BundleTypes(b) |-> BundleValue(b, T)]
Without(f, T) == [x \in DOMAIN f \ {T} |-> f[x]]

\* The history a caller keeps of what it gave an entity
StoredAfterSpawn(st, e, b) == MapInsert(st, e, BundleMap(b))
StoredAfterInsert(w, st, e, T, v) ==
    IF is_alive(w, e) THEN [st EXCEPT ![e] = MapInsert(@, T, v)] ELSE st
StoredAfterRemove(w, st, e, T) ==
    IF is_alive(w, e) THEN [st EXCEPT ![e] = Without(@, T)] ELSE st
StoredAfterDespawn(w, st, e) ==
    IF is_alive(w, e) THEN [st EXCEPT ![e] = <<>>] ELSE st

Apply(r) ==
    /\ ops < MaxOps
    /\ ops' = ops + 1
    /\ status' = r.status
    /\ bitmap' = r.world.bitmap
    /\ next_bitmask' = r.world.next_bitmask
    /\ archetype_map' = r.world.archetype_map
    /\ archetypes' = r.world.archetypes
    /\ metas' = r.world.metas
    /\ free' = r.world.free
    /\ UNCHANGED <<cache, borrows>>

CanCreate(w) == w.free # <<>> \/ Len(w.metas) < MaxEntities

Init ==
    /\ bitmap = <<>>
    /\ next_bitmask = 0
    /\ archetype_map = <<>>
    /\ archetypes = <<>>
    /\ metas = <<>>
    /\ free = <<>>
    /\ cache = <<>>
    /\ borrows = <<>>
    /\ status = "ok"
    /\ handles = {}
    /\ stored = <<>>
    /\ ops = 0

Spawn(b) ==
    /\ status = "ok"
    /\ CanCreate(World)
    /\ LET r == spawn(World, b)
       IN  /\ Apply(r)
           /\ IF r.status = "ok"
                THEN /\ handles' = handles \cup {r.entity}
                     /\ stored' = StoredAfterSpawn(stored, r.entity, b)
                ELSE UNCHANGED <<handles, stored>>

SpawnEmpty ==
    /\ status = "ok"
    /\ CanCreate(World)
    /\ LET r == spawn_empty(World)
       IN  /\ Apply(r)
           /\ handles' = handles \cup {r.entity}
           /\ stored' = MapInsert(stored, r.entity, <<>>)

InsertComponent(e, T, v) ==
    /\ status = "ok"
    /\ LET r == insert_component(World, e, T, v)
       IN  /\ Apply(r)
           /\ stored' = IF r.status = "ok"
                          THEN StoredAfterInsert(World, stored, e, T, v)
                          ELSE stored
           /\ UNCHANGED handles

RemoveComponent(e, T) ==
    /\ status = "ok"
    /\ LET r == remove_component(World, e, T)
       IN  /\ Apply(r)
           /\ stored' = IF r.status = "ok"
                          THEN StoredAfterRemove(World, stored, e, T)
                          ELSE stored
           /\ UNCHANGED handles

Despawn(e) ==
    /\ status = "ok"
    /\ LET r == despawn_entity(World, e)
       IN  /\ Apply(r)
           /\ stored' = IF r.status = "ok"
                          THEN StoredAfterDespawn(World, stored, e)
                          ELSE stored
           /\ UNCHANGED handles

Next ==
    \/ \E b \in BundlesOf(Fresh) : Spawn(b)
    \/ SpawnEmpty
    \/ \E e \in Callable, T \in Types : InsertComponent(e, T, Fresh)
    \/ \E e \in Callable, T \in Types : RemoveComponent(e, T)
    \/ \E e \in Callable : Despawn(e)

Spec == Init /\ [][Next]_vars

\* ------------------------------------------- the driver of registration
\* A program that only registers component types.  TypeIds are opaque, so
\* the types are named by the order of their first registration: the caller
\* registers a type again, or the next new one.
MaxTypes == 100
TypeIds == 1..MaxTypes
Registered == DOMAIN bitmap
NextType == Cardinality(Registered) + 1
\* The builds that can have produced the current state: a build with
\* overflow checks has panicked at the first overflowing shift.
Builds == IF next_bitmask > U64Bits THEN {FALSE} ELSE BOOLEAN

RegisterComponent(T, overflow_checks) ==
    /\ status = "ok"
    /\ T \in Registered \/ T = NextType
    /\ overflow_checks \in Builds
    /\ LET r == register_component_build(World, T, overflow_checks)
       IN  /\ status' = r.status
           /\ bitmap' = r.world.bitmap
           /\ next_bitmask' = r.world.next_bitmask
    /\ UNCHANGED <<archetype_map, archetypes, metas, free, cache, borrows,
                   handles, stored, ops>>

NextRegister == \E T \in TypeIds, overflow_checks \in BOOLEAN :
                    RegisterComponent(T, overflow_checks)

SpecRegister == Init /\ [][NextRegister]_vars

\* ============================================================== the claims
\* The handles the world returned that are alive, and what the table says
\* of one of them.
LiveHandles == { e \in handles : is_alive(World, e) }
LocationOf(e) == At(metas, e.index).location
\* A handle is not alive: its index is out of range or its generation is not
\* the slot's.
NotAlive(w, e) ==
    \/ e.index >= Len(w.metas)
    \/ At(w.metas, e.index).generation # e.generation
\* The component types registered with a bit inside the bitmask
TypesOfMask(w, bitmask) ==
    { T \in DOMAIN w.bitmap : w.bitmap[T] \subseteq bitmask }
Running == status = "ok"

\* ---- C1
\* C1: after any sequence of operations, every live entity e either has
\* location EMPTY or its location (archetype, row) is in range and the
\* back-map of that archetype holds e at that row.
C1_BackMapHoldsEntity ==
    Running =>
        \A e \in LiveHandles :
            \/ LocationOf(e) = EMPTY
            \/ /\ LocationOf(e).archetype < Len(archetypes)
               /\ LocationOf(e).row < Len(At(archetypes, LocationOf(e).archetype).rows)
               /\ At(At(archetypes, LocationOf(e).archetype).rows,
                     LocationOf(e).row) = e.index

\* ---- C2
\* C2: at the end of every operation, in every archetype the row count, the
\* length of the back-map and the length of every column are equal.
C2_LengthsAgree ==
    Running =>
        \A i \in DOMAIN archetypes :
            /\ archetypes[i].count = Len(archetypes[i].rows)
            /\ \A id \in DOMAIN archetypes[i].columns :
                    Len(archetypes[i].columns[id]) = archetypes[i].count

\* ---- C3
\* C3: at the end of every operation, the component types with a column in
\* an archetype are exactly the types whose bit is set in its bitmask.
C3_ColumnsAreMaskBits ==
    Running =>
        \A i \in DOMAIN archetypes :
            DOMAIN archetypes[i].columns = TypesOfMask(World, archetypes[i].bitmask)

\* ---- C4
InFree(i) == \E k \in DOMAIN free : free[k] = i
LiveIndex(i) == \E e \in LiveHandles : e.index = i
\* C4: every allocated entity index is the index of a live handle or is in
\* the free-list, never both, and no index is twice in the free-list.
C4_LiveOrFree ==
    Running =>
        /\ \A i \in 0..(Len(metas) - 1) : LiveIndex(i) <=> ~InFree(i)
        /\ \A k, l \in DOMAIN free : k # l => free[k] # free[l]
\* A state where one slot is free and another holds a live entity
C4_Witness ==
    /\ Running
    /\ \E i, j \in 0..(Len(metas) - 1) : InFree(i) /\ LiveIndex(j)
    /\ \E e \in handles : ~is_alive(World, e)

\* ---- C5
\* C5: despawn(e) of a live entity with components followed by a spawn
\* returning e2: e2 has e's index and another generation, e is not alive and
\* get_component on e is None, and get_component on e2 returns the values
\* that were spawned.
C5_DespawnThenSpawn ==
    Running =>
        \A e \in LiveHandles :
            ~is_empty(World, e) =>
                LET d == despawn_entity(World, e)
                IN  d.status = "ok" =>
                      \A b \in BundlesOf(Fresh + 1) :
                          LET s == spawn(d.world, b)
                          IN  s.status = "ok" =>
                                /\ s.entity.index = e.index
                                /\ s.entity.generation # e.generation
                                /\ ~is_alive(s.world, e)
                                /\ \A T \in Types : get_component(s.world, T, e) = None
                                /\ \A T \in BundleTypes(b) :
                                      get_component(s.world, T, s.entity)
                                          = Some(BundleValue(b, T))

\* ---- C6
\* C6: despawn(e) of a live entity whose location is EMPTY bumps the slot's
\* generation and pushes its index onto the free-list; e is then not alive.
C6_DespawnEmptyEntity ==
    Running =>
        \A e \in LiveHandles :
            is_empty(World, e) =>
                LET d == despawn_entity(World, e)
                IN  /\ d.status = "ok"
                    /\ At(d.world.metas, e.index).generation = e.generation + 1
                    /\ d.world.free = Append(free, e.index)
                    /\ ~is_alive(d.world, e)

\* ---- C7
\* C7: has_component<T>(e) is true if and only if e is alive, e has an
\* archetype, and the bitmask of that archetype includes T's bit (so it is
\* false for a stale handle and for a type that was never registered).
C7_HasComponentIff ==
    Running =>
        \A e \in Callable, T \in Types :
            has_component(World, T, e) <=>
                /\ ~NotAlive(World, e)
                /\ LocationOf(e) # EMPTY
                /\ LocationOf(e).archetype < Len(archetypes)
                /\ T \in TypesOfMask(World,
                                     At(archetypes, LocationOf(e).archetype).bitmask)

\* ---- C8
\* C8: get_component<T>(e) is None whenever e is not alive, e has location
\* EMPTY, or e's archetype has no T column; otherwise it is the value stored
\* for e (the last value the caller gave e for T).
C8_GetComponent ==
    Running =>
        \A e \in Callable, T \in Types :
            IF \/ NotAlive(World, e)
               \/ LocationOf(e) = EMPTY
               \/ T \notin DOMAIN At(archetypes, LocationOf(e).archetype).columns
            THEN get_component(World, T, e) = None
            ELSE /\ T \in DOMAIN stored[e]
                 /\ get_component(World, T, e) = Some(stored[e][T])

\* ---- C9
\* C9: insert_component, remove_component and despawn called with a handle
\* that is not alive return normally and leave the whole world unchanged:
\* entity metas, free-list, archetypes, lookup map and bit registrations.
C9_StaleHandleNoOp ==
    Running =>
        \A e \in Callable :
            NotAlive(World, e) =>
                /\ despawn_entity(World, e) = Returns(World, e)
                /\ \A T \in Types :
                      /\ insert_component(World, e, T, Fresh) = Returns(World, e)
                      /\ remove_component(World, e, T) = Returns(World, e)
\* A stale handle whose slot has been handed out again to an entity that is
\* alive and has components, and a handle whose index is out of range; the
\* three mutators have run on the stale handle.
C9_Witness ==
    /\ Running
    /\ NotAlive(World, Foreign)
    /\ \E e \in handles, e2 \in LiveHandles, T \in Types :
          /\ e.index = e2.index
          /\ e.generation # e2.generation
          /\ ~is_empty(World, e2)
          /\ despawn_entity(World, e).world = World
          /\ insert_component(World, e, T, Fresh).world = World
          /\ remove_component(World, e, T).world = World

\* ---- C10
\* C10: for every live entity e in any reachable state, insert_component(e, v)
\* followed by get_component<T>(e) returns v, and has_component<T>(e) is true.
C10_InsertThenGet ==
    Running =>
        \A e \in LiveHandles, T \in Types :
            LET r == insert_component(World, e, T, Fresh)
            IN  /\ r.status = "ok"
                /\ get_component(r.world, T, e) = Some(Fresh)
                /\ has_component(r.world, T, e)

\* ---- C11
\* C11: insert_component(e, v2) on a live entity that already holds a T
\* overwrites in place: get_component<T>(e) is v2 afterwards, and the number
\* of archetypes, every archetype's count and back-map, e's location and
\* every other component value are unchanged.
C11_OverwriteInPlace ==
    Running =>
        \A e \in LiveHandles, T \in Types :
            has_component(World, T, e) =>
                LET r == insert_component(World, e, T, Fresh)
                IN  /\ r.status = "ok"
                    /\ get_component(r.world, T, e) = Some(Fresh)
                    /\ Len(r.world.archetypes) = Len(archetypes)
                    /\ \A i \in DOMAIN archetypes :
                          /\ r.world.archetypes[i].count = archetypes[i].count
                          /\ r.world.archetypes[i].rows = archetypes[i].rows
                    /\ At(r.world.metas, e.index).location = LocationOf(e)
                    /\ \A e2 \in LiveHandles, T2 \in Types :
                          <<e2, T2>> # <<e, T>> =>
                              get_component(r.world, T2, e2)
                                  = get_component(World, T2, e2)

\* ---- C12
\* C12: remove_component<T>(e) on a live entity that holds T and at least one
\* other component moves e to the archetype whose bitmask is the source
\* bitmask with T's bit cleared; afterwards has_component<T>(e) is false and
\* get_component of every other component of e returns what it returned
\* before.
C12_RemoveMovesOut ==
    Running =>
        \A e \in LiveHandles, T \in Types :
            /\ has_component(World, T, e)
            /\ Unwrap(archetype_of(World, e)).bitmask # bit_of(World, T)[1]
            => LET r == remove_component(World, e, T)
                   source == Unwrap(archetype_of(World, e))
                   target == archetype_of(r.world, e)
               IN  /\ r.status = "ok"
                   /\ IsSome(target)
                   /\ Unwrap(target).bitmask = source.bitmask \ bit_of(World, T)[1]
                   /\ ~has_component(r.world, T, e)
                   /\ \A T2 \in Types \ {T} :
                         has_component(World, T2, e) =>
                             /\ IsSome(get_component(World, T2, e))
                             /\ get_component(r.world, T2, e)
                                    = get_component(World, T2, e)

\* ---- C13
\* The live handles other than e located in the last row of e's archetype
InLastRowOf(e) ==
    { e2 \in LiveHandles \ {e} :
        /\ LocationOf(e2).archetype = LocationOf(e).archetype
        /\ LocationOf(e2).row
              = At(archetypes, LocationOf(e).archetype).count - 1 }
\* C13: remove_component<T>(e) on a live entity whose only component is T
\* sets e's location to EMPTY; when e was not in the last row of its
\* archetype, the entity of the last row is afterwards located at e's old
\* row; every other entity's components are returned by get_component with
\* their previous values.
C13_RemoveLastComponent ==
    Running =>
        \A e \in LiveHandles, T \in Types :
            /\ has_component(World, T, e)
            /\ Unwrap(archetype_of(World, e)).bitmask = bit_of(World, T)[1]
            => LET r == remove_component(World, e, T)
               IN  /\ r.status = "ok"
                   /\ At(r.world.metas, e.index).location = EMPTY
                   /\ \A e2 \in InLastRowOf(e) :
                         At(r.world.metas, e2.index).location = LocationOf(e)
                   /\ \A e2 \in LiveHandles \ {e}, T2 \in Types :
                         get_component(r.world, T2, e2)
                             = get_component(World, T2, e2)

\* ---- C14
\* Every live handle other than e is alive in world w2 and has_component and
\* get_component answer for it in w2 as they do in the current world.
OthersKept(w2, e) ==
    \A e2 \in LiveHandles \ {e} :
        /\ is_alive(w2, e2)
        /\ \A T2 \in Types :
              /\ has_component(w2, T2, e2) = has_component(World, T2, e2)
              /\ get_component(w2, T2, e2) = get_component(World, T2, e2)
\* C14: insert_component or remove_component applied to a live entity e
\* leaves every other live entity alive with the same component set and the
\* same component values, the entity swapped into e's vacated row included.
C14_OtherEntitiesKept ==
    Running =>
        \A e \in LiveHandles, T \in Types :
            LET i == insert_component(World, e, T, Fresh)
                r == remove_component(World, e, T)
            IN  /\ i.status = "ok" /\ OthersKept(i.world, e)
                /\ r.status = "ok" /\ OthersKept(r.world, e)

\* ---- C15
\* C15: despawn(e) of a live entity with components decreases the count of
\* e's archetype by exactly one and makes e not alive; every other live
\* entity stays alive with the same component values, and the entity of the
\* archetype's last row (if it is not e) is afterwards located at e's row.
C15_DespawnRelocates ==
    Running =>
        \A e \in LiveHandles :
            ~is_empty(World, e) =>
                LET d == despawn_entity(World, e)
                    a == LocationOf(e).archetype
                IN  /\ d.status = "ok"
                    /\ At(d.world.archetypes, a).count = At(archetypes, a).count - 1
                    /\ ~is_alive(d.world, e)
                    /\ \A e2 \in LiveHandles \ {e} :
                          /\ is_alive(d.world, e2)
                          /\ \A T \in Types :
                                get_component(d.world, T, e2)
                                    = get_component(World, T, e2)
                    /\ \A e2 \in InLastRowOf(e) :
                          At(d.world.metas, e2.index).location = LocationOf(e)

\* ---- C16
\* C16: from any reachable state, spawn(b) returning e followed at once by
\* despawn(e) leaves the count of every archetype that existed before the
\* spawn as it was, and an archetype the spawn created has count 0.
C16_SpawnDespawnCounts ==
    Running =>
        \A b \in BundlesOf(Fresh) :
            LET s == spawn(World, b)
                d == despawn_entity(s.world, s.entity)
            IN  /\ s.status = "ok"
                /\ d.status = "ok"
                /\ Len(d.world.archetypes) >= Len(archetypes)
                /\ \A i \in DOMAIN d.world.archetypes :
                      d.world.archetypes[i].count
                          = IF i \in DOMAIN archetypes THEN archetypes[i].count ELSE 0

\* ---- C17
\* C17: spawn(bundle) returns a live entity located at the last row of the
\* archetype whose bitmask is the union of the bits of the bundle's types;
\* has_component is true exactly for the bundle's types and get_component
\* returns the bundle's values; every entity that was live before keeps its
\* component set and values.
C17_SpawnPlacesBundle ==
    Running =>
        \A b \in BundlesOf(Fresh) :
            LET s == spawn(World, b)
                e == s.entity
                loc == At(s.world.metas, e.index).location
                arch == Get(s.world.archetypes, loc.archetype)
            IN  /\ s.status = "ok"
                /\ is_alive(s.world, e)
                /\ IsSome(arch)
                /\ loc.row = Unwrap(arch).count - 1
                /\ Unwrap(arch).bitmask
                      = UNION { s.world.bitmap[T] : T \in BundleTypes(b) }
                /\ \A T \in Types :
                      /\ has_component(s.world, T, e) <=> T \in BundleTypes(b)
                      /\ T \in BundleTypes(b) =>
                            get_component(s.world, T, e) = Some(BundleValue(b, T))
                /\ OthersKept(s.world, e)

\* ---- C20
\* C20: after any sequence of operations no two archetypes of the world have
\* the same bitmask.
C20_BitmasksDistinct ==
    Running =>
        \A i, j \in DOMAIN archetypes :
            i # j => archetypes[i].bitmask # archetypes[j].bitmask
\* Three archetypes exist, and an entity has been placed in an archetype that
\* was already there when its bitmask was looked up (two rows in it).
C20_Witness ==
    /\ Running
    /\ Len(archetypes) >= 3
    /\ \E i \in DOMAIN archetypes : archetypes[i].count >= 2

\* ---- C18
\* C18: registering up to 64 distinct component types succeeds and gives
\* them pairwise distinct single-bit masks; registering a 65th distinct type
\* panics; in no case is a bit handed out that another type already has.
C18_SixtyFourTypes ==
    Running =>
        /\ \A T1, T2 \in Registered : T1 # T2 => bitmap[T1] # bitmap[T2]
        /\ NextType \in TypeIds =>
              \A overflow_checks \in Builds :
                  LET r == register_component_build(World, NextType, overflow_checks)
                  IN  /\ NextType <= U64Bits =>
                            /\ r.status = "ok"
                            /\ Cardinality(r.bit) = 1
                      /\ NextType = U64Bits + 1 => r.status = "panic"
                      /\ r.status = "ok" =>
                            \A T \in Registered : bitmap[T] # r.bit

\* ---- C19
\* C19: the n-th distinct type observed has bit n-1 and no other type has
\* that bit; registering a registered type returns its bit and changes
\* nothing; registering a new type leaves every existing assignment as it is.
C19_BitsUniqueAndStable ==
    Running =>
        /\ \A T \in Registered : bitmap[T] = Bit(T - 1)
        /\ \A T1, T2 \in Registered : T1 # T2 => bitmap[T1] # bitmap[T2]
        /\ \A overflow_checks \in Builds :
              /\ \A T \in Registered :
                    register_component_build(World, T, overflow_checks)
                        = [status |-> "ok", world |-> World, bit |-> bitmap[T]]
              /\ NextType \in TypeIds =>
                    LET r == register_component_build(World, NextType, overflow_checks)
                    IN  \A T \in Registered :
                            /\ T \in DOMAIN r.world.bitmap
                            /\ r.world.bitmap[T] = bitmap[T]

\* ================================================================ queries
\* World::query and World::query_filtered borrow the world mutably for the
\* life of the iterator, so no other method of the world runs while a query
\* is being iterated: a query is modelled by pure operators over the
\* archetypes, the bitmap, the cache and the borrow counters.

\* ------------------------------------------------- borrow counter (borrow.rs)
\* The counter of a column: 0 is unborrowed, n >= 1 is n shared borrows,
\* UNIQUE is the sentinel of the exclusive borrow.
UNIQUE == -1

\* AtomicBorrow::new
AtomicBorrowNew == 0

\* AtomicBorrow::borrow: whether it succeeded and the counter afterwards
atomic_borrow(c) ==
    IF c = UNIQUE
        THEN [ok |-> FALSE, counter |-> c]
        ELSE [ok |-> TRUE, counter |-> c + 1]

\* AtomicBorrow::borrow_mut
atomic_borrow_mut(c) ==
    IF c = AtomicBorrowNew
        THEN [ok |-> TRUE, counter |-> UNIQUE]
        ELSE [ok |-> FALSE, counter |-> c]

\* AtomicBorrow::release. Releasing a shared borrow nobody holds is outside
\* what is specified: `defined` is FALSE.
atomic_release(c) ==
    IF c >= 1
        THEN [defined |-> TRUE, counter |-> c - 1]
        ELSE [defined |-> FALSE, counter |-> c]

\* AtomicBorrow::release_mut
atomic_release_mut(c) ==
    IF c = UNIQUE
        THEN [defined |-> TRUE, counter |-> AtomicBorrowNew]
        ELSE [defined |-> FALSE, counter |-> c]

\* The counter of column T of archetype a (BlobData.borrow); a column is
\* created with AtomicBorrow::new.
Counter(b, a, T) == IF <<a, T>> \in DOMAIN b THEN b[<<a, T>>] ELSE AtomicBorrowNew
SetCounter(b, a, T, c) ==
    IF c = AtomicBorrowNew
        THEN [k \in DOMAIN b \ {<<a, T>>} |-> b[k]]
        ELSE MapInsert(b, <<a, T>>, c)

\* BlobData::borrow, BlobData::borrow_mut, BlobData::release,
\* BlobData::release_mut on column T of archetype a
blob_borrow(b, a, T) ==
    LET r == atomic_borrow(Counter(b, a, T))
    IN  [ok |-> r.ok, borrows |-> SetCounter(b, a, T, r.counter)]
\* BlobData::borrow_mut asking the counter for a shared borrow
blob_borrow_mut_shared(b, a, T) ==
    LET r == atomic_borrow(Counter(b, a, T))
    IN  [ok |-> r.ok, borrows |-> SetCounter(b, a, T, r.counter)]
blob_borrow_mut(b, a, T) ==
    LET r == atomic_borrow_mut(Counter(b, a, T))
    IN  [ok |-> r.ok, borrows |-> SetCounter(b, a, T, r.counter)]
blob_release(b, a, T) ==
    LET r == atomic_release(Counter(b, a, T))
    IN  [defined |-> r.defined, borrows |-> SetCounter(b, a, T, r.counter)]
blob_release_mut(b, a, T) ==
    LET r == atomic_release_mut(Counter(b, a, T))
    IN  [defined |-> r.defined, borrows |-> SetCounter(b, a, T, r.counter)]

\* BlobData::as_slice / as_slice_mut: the `len` initialised slots
as_slice(col) == col

\* ----------------------------------------------------------------- query.rs
\* The terms of a query. A fetch is &T, &mut T or Entity; a filter is
\* With<T> or Without<T>. A query is a fetch or a tuple of fetches, and a
\* filter tuple (() is the empty one).
Ref(T) == [kind |-> "ref", type |-> T]
Mut(T) == [kind |-> "mut", type |-> T]
EntityFetch == [kind |-> "entity", type |-> "Entity"]
With(T) == [kind |-> "with", type |-> T]
Excluding(T) == [kind |-> "without", type |-> T]
Query(fetch, tuple, filter) == [fetch |-> fetch, tuple |-> tuple, filter |-> filter]

\* Fetch::bit of &T, &mut T (bitmap[&TypeId::of::<T>()], which panics for a
\* type never registered: None here) and of Entity (0)
fetch_bit(bm, f) ==
    IF f.kind = "entity" THEN Some({})
    ELSE IF f.type \in DOMAIN bm THEN Some(bm[f.type])
    ELSE None

\* Filter::combine of With<T> and Without<T>
filter_combine(bm, f, masks) ==
    IF f.kind = "with"
        THEN [required |-> masks.required \cup bm[f.type], exclusion |-> masks.exclusion]
        ELSE [required |-> masks.required \ bm[f.type],
              exclusion |-> masks.exclusion \cup bm[f.type]]

\* Filter::combine of a filter tuple: its members in order
RECURSIVE filters_combine(_, _, _)
filters_combine(bm, filter, masks) ==
    IF filter = <<>> THEN masks
    ELSE filters_combine(bm, Tail(filter), filter_combine(bm, Head(filter), masks))

\* The required and exclusion masks QueryState::prepare computes
query_masks(bm, q) ==
    filters_combine(bm, q.filter,
        [required |-> UNION { Unwrap(fetch_bit(bm, q.fetch[i])) : i \in DOMAIN q.fetch },
         exclusion |-> {}])

\* whether prepare's bitmap lookups all find their type
query_registered(bm, q) ==
    /\ \A i \in DOMAIN q.fetch : IsSome(fetch_bit(bm, q.fetch[i]))
    /\ \A i \in DOMAIN q.filter : q.filter[i].type \in DOMAIN bm

\* CacheEntry::new
CacheEntryNew == [high_water_mark |-> 0, archetypes |-> <<>>]

\* QueryCache::get_or_insert_with: the entry of a key
get_or_insert_with(c, key) == IF key \in DOMAIN c THEN c[key] ELSE CacheEntryNew

\* prepare's test of one archetype against the masks
mask_matches(bitmask, masks) ==
    /\ masks.required \subseteq bitmask
    /\ bitmask \cap masks.exclusion = {}

\* prepare's scan putting each matching archetype in front of the list
RECURSIVE scan_prepending(_, _, _, _, _)
scan_prepending(archs, masks, lo, hi, acc) ==
    IF lo >= hi THEN acc
    ELSE scan_prepending(archs, masks, lo + 1, hi,
              IF mask_matches(At(archs, lo).bitmask, masks) THEN <<lo>> \o acc ELSE acc)

\* prepare's scan of the archetypes lo .. hi - 1, appending the matching ones
RECURSIVE scan(_, _, _, _, _)
scan(archs, masks, lo, hi, acc) ==
    IF lo >= hi THEN acc
    ELSE scan(archs, masks, lo + 1, hi,
              IF mask_matches(At(archs, lo).bitmask, masks) THEN Append(acc, lo) ELSE acc)

\* The cache entry after prepare brought it up to date
refresh_from_start(archs, masks, entry) ==
    IF entry.high_water_mark < Len(archs)
        THEN [high_water_mark |-> Len(archs),
              archetypes |-> scan(archs, masks, 0, Len(archs), entry.archetypes)]
        ELSE entry
refresh(archs, masks, entry) ==
    IF entry.high_water_mark < Len(archs)
        THEN [high_water_mark |-> Len(archs),
              archetypes |-> scan(archs, masks, entry.high_water_mark, Len(archs),
                                  entry.archetypes)]
        ELSE entry

\* QueryIter before its first item
QueryIterNew(indices) ==
    [indices |-> indices, current_iter |-> None, current_archetype |-> None]

\* QueryState::prepare (both impls) behind World::query_filtered: the cache
\* afterwards and the iterator it returns
prepare(archs, bm, c, q) ==
    IF ~query_registered(bm, q)
        THEN [status |-> "panic", cache |-> c, iter |-> QueryIterNew(<<>>)]
        ELSE LET masks == query_masks(bm, q)
                 key == <<masks.required, masks.exclusion>>
                 entry == refresh(archs, masks, get_or_insert_with(c, key))
             IN  [status |-> "ok", cache |-> MapInsert(c, key, entry),
                  iter |-> QueryIterNew(entry.archetypes)]

\* Fetch::access_chunk handing out the slice whatever the borrow answered
access_chunk_unchecked(archs, a, b, f) ==
    LET columns == At(archs, a).columns
    IN  IF f.kind = "entity"
            THEN [status |-> "ok", chunk |-> Some(At(archs, a).rows), borrows |-> b]
        ELSE IF f.type \notin DOMAIN columns
            THEN [status |-> "ok", chunk |-> None, borrows |-> b]
        ELSE LET r == IF f.kind = "ref" THEN blob_borrow(b, a, f.type)
                                        ELSE blob_borrow_mut(b, a, f.type)
             IN  [status |-> "ok", chunk |-> Some(as_slice(columns[f.type])),
                  borrows |-> r.borrows]

\* Fetch::access_chunk and Fetch::access_slice of one fetch on archetype a:
\* the values it will yield (None when the archetype has no such column) and
\* the borrow counters afterwards. A refused borrow panics.
access_chunk(archs, a, b, f) ==
    LET columns == At(archs, a).columns
    IN  IF f.kind = "entity"
            THEN [status |-> "ok", chunk |-> Some(At(archs, a).rows), borrows |-> b]
        ELSE IF f.type \notin DOMAIN columns
            THEN [status |-> "ok", chunk |-> None, borrows |-> b]
        ELSE LET r == IF f.kind = "ref" THEN blob_borrow(b, a, f.type)
                                        ELSE blob_borrow_mut(b, a, f.type)
             IN  IF r.ok
                     THEN [status |-> "ok", chunk |-> Some(as_slice(columns[f.type])),
                           borrows |-> r.borrows]
                     ELSE [status |-> "panic", chunk |-> None, borrows |-> b]

\* The access_chunk / access_slice calls of the fetches i, i + 1, ... in
\* order, up to the first that returns None: `chunks` holds one Option per
\* call made.
RECURSIVE access_all(_, _, _, _, _, _)
access_all(archs, a, b, fetch, i, acc) ==
    IF i > Len(fetch) THEN [status |-> "ok", chunks |-> acc, borrows |-> b]
    ELSE LET r == access_chunk(archs, a, b, fetch[i])
         IN  IF r.status # "ok"
                 THEN [status |-> r.status, chunks |-> acc, borrows |-> b]
             ELSE IF ~IsSome(r.chunk)
                 THEN [status |-> "ok", chunks |-> Append(acc, None), borrows |-> r.borrows]
             ELSE access_all(archs, a, r.borrows, fetch, i + 1, Append(acc, r.chunk))

\* QueryState::create_iter (both impls): the chunk of every fetch, or None as
\* soon as one fetch has no column (the borrows taken before it stay taken)
create_iter(archs, a, b, q) ==
    LET r == access_all(archs, a, b, q.fetch, 1, <<>>)
    IN  [status |-> r.status,
         iter |-> IF r.status = "ok" /\ \A i \in DOMAIN r.chunks : IsSome(r.chunks[i])
                      THEN Some([i \in DOMAIN r.chunks |-> Unwrap(r.chunks[i])])
                      ELSE None,
         borrows |-> r.borrows]

\* Fetch::release of the fetches i, i + 1, ... in order (QueryState::release)
RECURSIVE release_from(_, _, _, _, _)
release_from(archs, a, b, fetch, i) ==
    IF i > Len(fetch) THEN [status |-> "ok", borrows |-> b]
    ELSE LET f == fetch[i]
         IN  IF f.kind = "entity" \/ f.type \notin DOMAIN At(archs, a).columns
                 THEN release_from(archs, a, b, fetch, i + 1)
             ELSE LET r == IF f.kind = "ref" THEN blob_release(b, a, f.type)
                                             ELSE blob_release_mut(b, a, f.type)
                  IN  IF r.defined
                          THEN release_from(archs, a, r.borrows, fetch, i + 1)
                          ELSE [status |-> "unspecified", borrows |-> b]
release(archs, a, b, q) == release_from(archs, a, b, q.fetch, 1)

\* MultiZip::next (and the slice iterator of a single fetch): an item while
\* every chunk has one
zip_has_next(chunks) == \A i \in DOMAIN chunks : chunks[i] # <<>>
zip_item(chunks) == [i \in DOMAIN chunks |-> Head(chunks[i])]
zip_rest(chunks) == [i \in DOMAIN chunks |-> Tail(chunks[i])]

\* every item a chunk iterator yields until its first None
RECURSIVE zip_all(_)
zip_all(chunks) ==
    IF zip_has_next(chunks) THEN <<zip_item(chunks)>> \o zip_all(zip_rest(chunks))
    ELSE <<>>

\* QueryIter::next: the item (None at the end), the iterator and the borrow
\* counters afterwards
RECURSIVE next(_, _, _, _)
next(archs, q, it, b) ==
    IF IsSome(it.current_iter) /\ zip_has_next(Unwrap(it.current_iter))
        THEN [status |-> "ok", item |-> Some(zip_item(Unwrap(it.current_iter))),
              iter |-> [it EXCEPT !.current_iter = Some(zip_rest(Unwrap(@)))],
              borrows |-> b]
    ELSE LET rel == IF IsSome(it.current_archetype)
                        THEN release(archs, Unwrap(it.current_archetype), b, q)
                        ELSE [status |-> "ok", borrows |-> b]
             left == IF IsSome(it.current_archetype)
                         THEN [it EXCEPT !.current_iter = None, !.current_archetype = None]
                         ELSE it
         IN  IF rel.status # "ok"
                 THEN [status |-> rel.status, item |-> None, iter |-> it, borrows |-> b]
             ELSE IF left.indices = <<>>
                 THEN [status |-> "ok", item |-> None, iter |-> left, borrows |-> rel.borrows]
             ELSE LET arch_index == Head(left.indices)
                      rest == [left EXCEPT !.indices = Tail(@)]
                  IN  IF At(archs, arch_index).count = 0
                          THEN next(archs, q, rest, rel.borrows)
                      ELSE LET c == create_iter(archs, arch_index, rel.borrows, q)
                           IN  IF c.status # "ok"
                                   THEN [status |-> c.status, item |-> None, iter |-> it,
                                         borrows |-> b]
                               ELSE next(archs, q,
                                         [rest EXCEPT !.current_iter = c.iter,
                                                      !.current_archetype = Some(arch_index)],
                                         c.borrows)

\* Dropping a QueryIter: the struct has no Drop impl and its fields are
\* references and slice iterators, so nothing runs and the borrow counters
\* stay as they are.
drop_iter(archs, q, it, b) == b

\* an iteration's result with one more item in front
Prepend(item, result) == [result EXCEPT !.items = <<item>> \o @]

\* k calls of QueryIter::next, stopping at the first None: the items yielded.
\* take_step is given what the first of the k calls returned.
RECURSIVE take(_, _, _, _, _)
RECURSIVE take_step(_, _, _, _, _, _)
take_step(archs, q, it, b, k, r) ==
    IF r.status # "ok"
        THEN [status |-> r.status, items |-> <<>>, iter |-> it, borrows |-> b,
              ended |-> FALSE]
    ELSE IF ~IsSome(r.item)
        THEN [status |-> "ok", items |-> <<>>, iter |-> r.iter, borrows |-> r.borrows,
              ended |-> TRUE]
    ELSE Prepend(Unwrap(r.item), take(archs, q, r.iter, r.borrows, k - 1))
take(archs, q, it, b, k) ==
    IF k = 0
        THEN [status |-> "ok", items |-> <<>>, iter |-> it, borrows |-> b,
              ended |-> FALSE]
        ELSE take_step(archs, q, it, b, k, next(archs, q, it, b))

\* QueryIter::next called until it returns None: the items of the complete
\* iteration. drain_step is given what the first call returned.
RECURSIVE drain(_, _, _, _)
RECURSIVE drain_step(_, _, _, _, _)
drain_step(archs, q, it, b, r) ==
    IF r.status # "ok"
        THEN [status |-> r.status, items |-> <<>>, iter |-> it, borrows |-> b]
    ELSE IF ~IsSome(r.item)
        THEN [status |-> "ok", items |-> <<>>, iter |-> r.iter, borrows |-> r.borrows]
    ELSE Prepend(Unwrap(r.item), drain(archs, q, r.iter, r.borrows))
drain(archs, q, it, b) == drain_step(archs, q, it, b, next(archs, q, it, b))

\* an iteration's result with the items of one archetype in front
PrependAll(items, result) == [result EXCEPT !.items = items \o @]

\* The loop of QueryIter::for_each over the archetypes not yet entered.
\* for_each_arch is its body for one archetype, given what create_iter
\* returned; for_each_released is the rest of the loop after Q::release.
RECURSIVE for_each_rest(_, _, _, _)
RECURSIVE for_each_arch(_, _, _, _, _)
RECURSIVE for_each_released(_, _, _, _, _, _)
for_each_released(archs, q, indices, b, items, rel) ==
    IF rel.status # "ok"
        THEN [status |-> rel.status, items |-> items, borrows |-> b]
        ELSE PrependAll(items, for_each_rest(archs, q, Tail(indices), rel.borrows))
for_each_arch(archs, q, indices, b, c) ==
    IF c.status # "ok"
        THEN [status |-> c.status, items |-> <<>>, borrows |-> b]
    ELSE IF ~IsSome(c.iter)
        THEN for_each_rest(archs, q, Tail(indices), c.borrows)
    ELSE for_each_released(archs, q, indices, b, zip_all(Unwrap(c.iter)),
                           release(archs, Head(indices), c.borrows, q))
for_each_rest(archs, q, indices, b) ==
    IF indices = <<>> THEN [status |-> "ok", items |-> <<>>, borrows |-> b]
    ELSE IF At(archs, Head(indices)).count = 0
        THEN for_each_rest(archs, q, Tail(indices), b)
    ELSE for_each_arch(archs, q, indices, b, create_iter(archs, Head(indices), b, q))

\* QueryIter::for_each: the items the callback receives and the borrow
\* counters when it returns. for_each_from is given the items left in the
\* current archetype and what releasing the current archetype returned.
for_each_from(archs, q, it, b, first, rel) ==
    IF rel.status # "ok"
        THEN [status |-> rel.status, items |-> first, borrows |-> b]
        ELSE PrependAll(first, for_each_rest(archs, q, it.indices, rel.borrows))
for_each(archs, q, it, b) ==
    for_each_from(archs, q, it, b,
        IF IsSome(it.current_iter) THEN zip_all(Unwrap(it.current_iter)) ELSE <<>>,
        IF IsSome(it.current_archetype)
            THEN release(archs, Unwrap(it.current_archetype), b, q)
            ELSE [status |-> "ok", borrows |-> b])

\* a chunked result with one more call of the callback in front
PrependCall(call, result) == [result EXCEPT !.calls = <<call>> \o @]

\* The loop of QueryState::for_each_chunk over the cached archetypes. The
\* impl for one fetch skips an archetype without the column; the impl for a
\* tuple panics there. chunks_arch is the loop's body for one archetype,
\* given what the access_slice calls returned; chunks_released is the rest
\* of the loop after the callback and the releases.
RECURSIVE chunks_rest(_, _, _, _)
RECURSIVE chunks_arch(_, _, _, _, _)
RECURSIVE chunks_released(_, _, _, _, _, _)
chunks_released(archs, q, indices, b, call, rel) ==
    IF rel.status # "ok"
        THEN [status |-> rel.status, calls |-> <<call>>, borrows |-> b]
        ELSE PrependCall(call, chunks_rest(archs, q, Tail(indices), rel.borrows))
chunks_arch(archs, q, indices, b, c) ==
    IF c.status # "ok"
        THEN [status |-> c.status, calls |-> <<>>, borrows |-> b]
    ELSE IF \E i \in DOMAIN c.chunks : ~IsSome(c.chunks[i])
        THEN IF q.tuple
                 THEN [status |-> "panic", calls |-> <<>>, borrows |-> b]
                 ELSE chunks_rest(archs, q, Tail(indices), c.borrows)
    ELSE chunks_released(archs, q, indices, b,
             [archetype |-> Head(indices),
              slices |-> [i \in DOMAIN c.chunks |-> Unwrap(c.chunks[i])]],
             release(archs, Head(indices), c.borrows, q))
chunks_rest(archs, q, indices, b) ==
    IF indices = <<>> THEN [status |-> "ok", calls |-> <<>>, borrows |-> b]
    ELSE IF At(archs, Head(indices)).count = 0
        THEN chunks_rest(archs, q, Tail(indices), b)
    ELSE chunks_arch(archs, q, indices, b,
                     access_all(archs, Head(indices), b, q.fetch, 1, <<>>))

\* QueryState::for_each_chunk (both impls): the cache afterwards, the calls
\* of the callback in order, and the borrow counters when it returns
for_each_chunk(archs, bm, c, b, q) ==
    LET p == prepare(archs, bm, c, q)
    IN  IF p.status # "ok"
            THEN [status |-> p.status, cache |-> c, calls |-> <<>>, borrows |-> b]
        ELSE LET r == chunks_rest(archs, q, p.iter.indices, b)
             IN  [status |-> r.status, cache |-> p.cache, calls |-> r.calls,
                  borrows |-> r.borrows]

\* ------------------------------------------------------------ query driver
\* The queries the program makes: World::query::<Q>() and
\* World::query_filtered::<Q, F>() for these Q and F.
Queries ==
    { Query(<<Ref("A")>>, FALSE, <<>>),
      Query(<<Mut("A")>>, FALSE, <<>>),
      Query(<<Mut("B")>>, FALSE, <<>>),
      Query(<<Mut("A"), Ref("B")>>, TRUE, <<>>),
      Query(<<EntityFetch, Ref("A")>>, TRUE, <<>>),
      Query(<<Ref("A"), Mut("A")>>, TRUE, <<>>),
      Query(<<Mut("A"), Ref("A")>>, TRUE, <<>>),
      Query(<<Mut("A"), Mut("A")>>, TRUE, <<>>),
      Query(<<Ref("A")>>, FALSE, <<With("B"), Excluding("B")>>),
      Query(<<Ref("A")>>, FALSE, <<Excluding("B"), With("B")>>),
      Query(<<Ref("A")>>, FALSE, <<Excluding("A")>>) }

\* how many items a caller takes with next before it drops the iterator or
\* hands it to for_each
MaxTake == 2
\* the operations of one run of the query specification
MaxQueryOps == 4

\* how a query ended, given the steps it went through in order
Outcome(statuses) ==
    IF \E i \in DOMAIN statuses : statuses[i] # "ok"
        THEN statuses[CHOOSE i \in DOMAIN statuses :
                          /\ statuses[i] # "ok"
                          /\ \A j \in 1..(i - 1) : statuses[j] = "ok"]
        ELSE "ok"

\* World::query_filtered, k calls of next on the iterator, then the iterator
\* is dropped.
QueryNext(q, k) ==
    /\ status = "ok"
    /\ ops < MaxOps
    /\ \E p \in {prepare(archetypes, bitmap, cache, q)} :
       \E t \in {take(archetypes, q, p.iter, borrows, k)} :
           /\ status' = Outcome(<<p.status, t.status>>)
           /\ cache' = IF p.status = "ok" THEN p.cache ELSE cache
           /\ borrows' = IF status' = "ok"
                             THEN drop_iter(archetypes, q, t.iter, t.borrows)
                             ELSE borrows
    /\ ops' = ops + 1
    /\ UNCHANGED <<bitmap, next_bitmask, archetype_map, archetypes, metas, free,
                   handles, stored>>

\* World::query_filtered, k calls of next, then QueryIter::for_each
QueryForEach(q, k) ==
    /\ status = "ok"
    /\ ops < MaxOps
    /\ \E p \in {prepare(archetypes, bitmap, cache, q)} :
       \E t \in {take(archetypes, q, p.iter, borrows, k)} :
       \E r \in {for_each(archetypes, q, t.iter, t.borrows)} :
           /\ status' = Outcome(<<p.status, t.status, r.status>>)
           /\ cache' = IF p.status = "ok" THEN p.cache ELSE cache
           /\ borrows' = IF status' = "ok" THEN r.borrows ELSE borrows
    /\ ops' = ops + 1
    /\ UNCHANGED <<bitmap, next_bitmask, archetype_map, archetypes, metas, free,
                   handles, stored>>

\* QueryState::for_each_chunk on the world's archetypes, bitmap and cache
QueryChunks(q) ==
    /\ status = "ok"
    /\ ops < MaxOps
    /\ \E r \in {for_each_chunk(archetypes, bitmap, cache, borrows, q)} :
           /\ status' = r.status
           /\ cache' = r.cache
           /\ borrows' = IF r.status = "ok" THEN r.borrows ELSE borrows
    /\ ops' = ops + 1
    /\ UNCHANGED <<bitmap, next_bitmask, archetype_map, archetypes, metas, free,
                   handles, stored>>

NextQuery ==
    /\ ops < MaxQueryOps
    /\ \/ Next
       \/ \E q \in Queries, k \in 0..MaxTake : QueryNext(q, k)
       \/ \E q \in Queries, k \in 0..MaxTake : QueryForEach(q, k)
       \/ \E q \in Queries : QueryChunks(q)

SpecQuery == Init /\ [][NextQuery]_vars

\* ------------------------------------------------------ claims on queries
\* whether a cache entry lists exactly the archetypes below its mark that
\* pass the masks of its key, each once
EntryExact(archs, key, entry) ==
    /\ entry.high_water_mark <= Len(archs)
    /\ \A i \in DOMAIN entry.archetypes :
          /\ entry.archetypes[i] < entry.high_water_mark
          /\ key[1] \subseteq At(archs, entry.archetypes[i]).bitmask
          /\ At(archs, entry.archetypes[i]).bitmask \cap key[2] = {}
    /\ \A a \in 0..(entry.high_water_mark - 1) :
          (key[1] \subseteq At(archs, a).bitmask /\ At(archs, a).bitmask \cap key[2] = {})
              => \E i \in DOMAIN entry.archetypes : entry.archetypes[i] = a
    /\ \A i, j \in DOMAIN entry.archetypes :
          entry.archetypes[i] = entry.archetypes[j] => i = j

\* the cache key of a query whose types are registered
KeyOf(q) ==
    LET masks == query_masks(bitmap, q) IN <<masks.required, masks.exclusion>>

\* C21: every cache entry lists exactly the archetype indices below its
\* high-water mark whose bitmask contains the required bits and none of the
\* excluded bits, each once, whatever mutations and preparations came
\* before; and right after a query is prepared its entry is such a list with
\* the mark at the current number of archetypes.
C21_CacheExact ==
    /\ \A key \in DOMAIN cache : EntryExact(archetypes, key, cache[key])
    /\ Running =>
          \A q \in Queries :
              LET p == prepare(archetypes, bitmap, cache, q)
              IN  p.status = "ok" =>
                      /\ KeyOf(q) \in DOMAIN p.cache
                      /\ p.cache[KeyOf(q)].high_water_mark = Len(archetypes)
                      /\ EntryExact(archetypes, KeyOf(q), p.cache[KeyOf(q)])

\* an entry with matches was cached, archetypes were created since, and
\* preparing its query again brings it up to date
C21_Witness ==
    /\ Running
    /\ \E q \in Queries :
          /\ query_registered(bitmap, q)
          /\ KeyOf(q) \in DOMAIN cache
          /\ cache[KeyOf(q)].archetypes # <<>>
          /\ cache[KeyOf(q)].high_water_mark < Len(archetypes)
          /\ Len(prepare(archetypes, bitmap, cache, q).cache[KeyOf(q)].archetypes)
                 > Len(cache[KeyOf(q)].archetypes)

\* The types a query requires (its fetched types and its With<T> filters)
\* and the types it excludes (its Without<T> filters)
RequiredTypes(q) ==
    { q.fetch[i].type : i \in { j \in DOMAIN q.fetch : q.fetch[j].kind # "entity" } }
        \cup { q.filter[i].type : i \in { j \in DOMAIN q.filter : q.filter[j].kind = "with" } }
ExcludedTypes(q) ==
    { q.filter[i].type : i \in { j \in DOMAIN q.filter : q.filter[j].kind = "without" } }

\* The live entities a query matches, by the components their caller gave them
Matching(q) ==
    { e \in LiveHandles :
          /\ RequiredTypes(q) \subseteq DOMAIN stored[e]
          /\ ExcludedTypes(q) \cap DOMAIN stored[e] = {} }

\* The item a query owes for entity e: per fetch, the entity or its component
ItemOf(q, e) ==
    [i \in DOMAIN q.fetch |->
        IF q.fetch[i].kind = "entity" THEN e ELSE stored[e][q.fetch[i].type]]

\* What row r of archetype a holds for a query's fetches
RowItem(archs, q, a, r) ==
    [i \in DOMAIN q.fetch |->
        IF q.fetch[i].kind = "entity" THEN At(At(archs, a).rows, r)
        ELSE IF q.fetch[i].type \in DOMAIN At(archs, a).columns
            THEN blob_read(At(archs, a).columns[q.fetch[i].type], r)
        ELSE Uninit]

\* Rows 0 .. count - 1 of the listed archetypes, archetype after archetype
RECURSIVE RowsInOrder(_, _, _)
RowsInOrder(archs, q, indices) ==
    IF indices = <<>> THEN <<>>
    ELSE [r \in 1..At(archs, Head(indices)).count |->
              RowItem(archs, q, Head(indices), r - 1)]
         \o RowsInOrder(archs, q, Tail(indices))

\* a complete row iteration of q from the current state
Complete(q) ==
    LET p == prepare(archetypes, bitmap, cache, q)
    IN  IF p.status # "ok"
            THEN [status |-> p.status, items |-> <<>>, iter |-> p.iter, borrows |-> borrows]
            ELSE drain(archetypes, q, p.iter, borrows)

HasEntityFetch(q) == \E i \in DOMAIN q.fetch : q.fetch[i].kind = "entity"

\* C22: a complete row iteration of a query yields one item per live entity
\* that has every required type and no excluded type, and nothing else; the
\* items are the rows 0, 1, ... of each matched archetype in turn, empty
\* archetypes adding nothing; also when the world changed after the query
\* was first cached.
C22_RowIteration ==
    Running =>
        \A q \in { x \in Queries : ~HasEntityFetch(x) } :
            LET d == Complete(q)
            IN  d.status = "ok" =>
                    /\ { d.items[i] : i \in DOMAIN d.items } = { ItemOf(q, e) : e \in Matching(q) }
                    /\ Len(d.items) = Cardinality(Matching(q))
                    /\ d.items = RowsInOrder(archetypes, q,
                                     prepare(archetypes, bitmap, cache, q).iter.indices)

\* C23: in a query fetching Entity together with &T, every yielded entity is
\* live and the T yielded with it is what get_component returns for that
\* entity, and a complete iteration yields each matching live entity once.
C23_EntityFetch ==
    Running =>
        \A q \in { x \in Queries : HasEntityFetch(x) } :
            LET d == Complete(q)
            IN  d.status = "ok" =>
                    /\ \A i \in DOMAIN d.items :
                          \E e \in LiveHandles :
                              /\ e.index = d.items[i][1]
                              /\ get_component(World, q.fetch[2].type, e) = Some(d.items[i][2])
                    /\ \A e \in Matching(q) :
                          Cardinality({ i \in DOMAIN d.items : d.items[i][1] = e.index }) = 1
                    /\ Len(d.items) = Cardinality(Matching(q))

\* the columns that exist: (archetype index, type)
Columns ==
    { <<a, T>> \in (0..(Len(archetypes) - 1)) \X Types : T \in DOMAIN At(archetypes, a).columns }

Unborrowed(c) == c = AtomicBorrowNew
Shared(c) == c >= 1
Exclusive(c) == c = UNIQUE

SelfConflicting ==
    { q \in Queries :
          \E i, j \in DOMAIN q.fetch :
              /\ i # j
              /\ q.fetch[i].type = q.fetch[j].type
              /\ q.fetch[i].kind = "mut"
              /\ q.fetch[j].kind \in {"ref", "mut"} }

\* whether a list of archetype indices has a non-empty archetype
HasRows(archs, indices) ==
    \E i \in DOMAIN indices : At(archs, indices[i]).count > 0

Changed(b1, b2) ==
    { key \in Columns : Counter(b1, key[1], key[2]) # Counter(b2, key[1], key[2]) }

\* C26: while rows are taken with next, the query holds borrows only on
\* columns of the archetype it is currently in (those of the archetypes it
\* left are released); and once next has returned None, or for_each has
\* returned, every borrow counter has its value from before the iteration.
C26_BorrowsFollowArchetype ==
    Running =>
        \A q \in Queries :
            LET p == prepare(archetypes, bitmap, cache, q)
            IN  p.status = "ok" =>
                    /\ \A k \in 0..(MaxEntities + 1) :
                          LET t == take(archetypes, q, p.iter, borrows, k)
                          IN  t.status = "ok" =>
                                  /\ \A key \in Changed(t.borrows, borrows) :
                                        /\ IsSome(t.iter.current_archetype)
                                        /\ key[1] = Unwrap(t.iter.current_archetype)
                                  /\ t.ended => t.borrows = borrows
                                  /\ LET r == for_each(archetypes, q, t.iter, t.borrows)
                                     IN  r.status = "ok" => r.borrows = borrows
                    /\ LET d == drain(archetypes, q, p.iter, borrows)
                       IN  d.status = "ok" => d.borrows = borrows

\* C27: when an iterator is dropped after at least one item was taken and
\* before its current archetype is exhausted, the borrows it holds are
\* released: a later query that borrows one of the fetched columns
\* exclusively, and that would not have panicked before this iteration, does
\* not panic.
C27_DropReleases ==
    Running =>
        \A q \in Queries, k \in 1..MaxTake :
            LET p == prepare(archetypes, bitmap, cache, q)
                t == take(archetypes, q, p.iter, borrows, k)
                dropped == drop_iter(archetypes, q, t.iter, t.borrows)
            IN  ( /\ p.status = "ok" /\ t.status = "ok"
                  /\ Len(t.items) >= 1
                  /\ IsSome(t.iter.current_iter)
                  /\ zip_has_next(Unwrap(t.iter.current_iter)) ) =>
                    \A i \in { j \in DOMAIN q.fetch : q.fetch[j].kind # "entity" } :
                        LET later == Query(<<Mut(q.fetch[i].type)>>, FALSE, <<>>)
                            p2 == prepare(archetypes, bitmap, p.cache, later)
                        IN  drain(archetypes, later, p2.iter, borrows).status = "ok" =>
                                drain(archetypes, later, p2.iter, dropped).status = "ok"

\* C28: for_each passes to its callback exactly the items, in the order,
\* that calling next until None would yield, also on an iterator some items
\* were already taken from; and when it returns every borrow of the
\* iteration is released.
C28_ForEachLikeNext ==
    Running =>
        \A q \in Queries, k \in 0..MaxTake :
            LET p == prepare(archetypes, bitmap, cache, q)
                t == take(archetypes, q, p.iter, borrows, k)
                d == drain(archetypes, q, t.iter, t.borrows)
                r == for_each(archetypes, q, t.iter, t.borrows)
            IN  (p.status = "ok" /\ t.status = "ok" /\ d.status = "ok") =>
                    /\ r.status = "ok"
                    /\ r.items = d.items
                    /\ r.borrows = borrows

\* the items of the slices of the callback's calls, call after call
RECURSIVE ChunkItems(_)
ChunkItems(calls) ==
    IF calls = <<>> THEN <<>>
    ELSE zip_all(Head(calls).slices) \o ChunkItems(Tail(calls))

\* whether an archetype's bitmask has every type the query requires and
\* none it excludes
ArchetypeMatches(arch, q) ==
    /\ \A T \in RequiredTypes(q) : bitmap[T] \subseteq arch.bitmask
    /\ \A T \in ExcludedTypes(q) : bitmap[T] \cap arch.bitmask = {}

\* the non-empty archetypes matching q among a list of archetype indices,
\* in the order of the list
NonEmptyMatching(archs, q, indices) ==
    LET visited(a) == At(archs, a).count > 0 /\ ArchetypeMatches(At(archs, a), q)
    IN  SelectSeq(indices, visited)

\* C29: chunked access calls the callback once per non-empty matching
\* archetype, in the order of row iteration, with slices as long as the
\* archetype's count; the slices put end to end are the items of the row
\* iterator for the same query, so it delivers nothing, and does not fail,
\* when the row iterator yields nothing; and it leaves every borrow released.
C29_ChunksLikeRows ==
    Running =>
        \A q \in Queries :
            LET p == prepare(archetypes, bitmap, cache, q)
                d == Complete(q)
                c == for_each_chunk(archetypes, bitmap, cache, borrows, q)
            IN  (p.status = "ok" /\ d.status = "ok") =>
                    /\ c.status = "ok"
                    /\ [i \in DOMAIN c.calls |-> c.calls[i].archetype]
                           = NonEmptyMatching(archetypes, q, p.iter.indices)
                    /\ \A i \in DOMAIN c.calls : \A j \in DOMAIN c.calls[i].slices :
                          Len(c.calls[i].slices[j]) = At(archetypes, c.calls[i].archetype).count
                    /\ ChunkItems(c.calls) = d.items
                    /\ c.borrows = borrows
                    /\ c.cache = p.cache

\* the queries that require and exclude the same type
Contradictory == { q \in Queries : RequiredTypes(q) \cap ExcludedTypes(q) # {} }

\* C30: a query that requires a type (by fetching it or by With) and
\* excludes the same type (by Without) yields no row, in whatever order its
\* filters are written and whatever entities exist.
C30_RequiredAndExcluded ==
    Running =>
        \A q \in Contradictory :
            LET d == Complete(q)
            IN  d.status = "ok" => d.items = <<>>

\* ---- C31
\* C31: after every operation the archetype lookup map agrees with the
\* archetype list: every entry mask -> i names an existing archetype whose
\* bitmask is mask, and the bitmask of every archetype has an entry;
\* whichever of spawn, insert_component and remove_component created it.
C31_LookupMapConsistent ==
    Running =>
        /\ \A mask \in DOMAIN archetype_map :
              /\ archetype_map[mask] < Len(archetypes)
              /\ At(archetypes, archetype_map[mask]).bitmask = mask
        /\ \A i \in DOMAIN archetypes : archetypes[i].bitmask \in DOMAIN archetype_map

\* ---- C32
\* C32: when spawn places a bundle, the entry appended to the back-map of the
\* archetype for the new row identifies the entity spawn returns, not the
\* row number or another entity, also when the entity's index is not the row.
C32_SpawnBackMapEntry ==
    Running =>
        \A b \in BundlesOf(Fresh) :
            CanCreate(World) =>
                LET r == spawn(World, b)
                    loc == At(r.world.metas, r.entity.index).location
                IN  r.status = "ok" =>
                        /\ loc.archetype < Len(r.world.archetypes)
                        /\ loc.row < Len(At(r.world.archetypes, loc.archetype).rows)
                        /\ At(At(r.world.archetypes, loc.archetype).rows, loc.row)
                               = r.entity.index

\* ---- C33
\* What C33 asks of the back-map when row `index` of a sequence of `count`
\* entries is removed by swapping the last entry into its place.
SwapRemoved(s, index) ==
    IF index >= Len(s) THEN s
    ELSE IF index = Len(s) - 1 THEN PopBack(s)
    ELSE PopBack(SetAt(s, index, s[Len(s)]))

\* Archetypes whose back-map and columns all hold `count` entries.
WellFormed(arch) ==
    /\ Len(arch.rows) = arch.count
    /\ \A id \in DOMAIN arch.columns : Len(arch.columns[id]) = arch.count

\* C33: Archetype::swap_remove(row) and Archetype::move_to(row, f) with
\* row < count - 1 leave the back-map equal to the old one with rows[row]
\* replaced by the old last entry and the last entry removed, as the columns
\* are, and return the old last entry; with row = count - 1 they remove the
\* last entry and return none; with row >= count they change nothing and
\* return none.
C33_SwapRemoveBackMap ==
    Running =>
        \A i \in DOMAIN archetypes : WellFormed(archetypes[i]) =>
            \A index \in 0 .. archetypes[i].count :
                LET arch == archetypes[i]
                    s    == swap_remove(arch, index)
                    m    == move_to(arch, index)
                    moved == IF index + 1 < arch.count
                                THEN Some(arch.rows[Len(arch.rows)]) ELSE None
                IN  /\ s.arch.rows = SwapRemoved(arch.rows, index)
                    /\ m.arch.rows = SwapRemoved(arch.rows, index)
                    /\ \A id \in DOMAIN arch.columns :
                          /\ s.arch.columns[id] = SwapRemoved(arch.columns[id], index)
                          /\ m.arch.columns[id] = SwapRemoved(arch.columns[id], index)
                    /\ s.moved = moved
                    /\ m.moved = moved
                    /\ index >= arch.count => s.arch = arch /\ m.arch = arch

\* ------------------------------------------------------------ drop glue
\* A component value together with its type, as the drop glue sees it
Val(T, v) == <<T, v>>

\* World::insert_component, the unsafe block of the overwrite branch and the
\* forget after it (world.rs 115-122).  `slot` is what ptr points at,
\* `local` is the parameter `component`; swap_nonoverlapping exchanges them,
\* the drop glue then runs on ptr and the local is forgotten.
insert_overwrite_drop(col, row, component) ==
    LET slot  == component
        local == At(col, row)
    IN  [column    |-> SetAt(col, row, slot),
         dropped   |-> <<slot>>,
         forgotten |-> <<local>>]

\* ---- C34
\* C34: when insert_component overwrites an existing component, the old value
\* is dropped exactly once and the new value is not dropped; the value that
\* stays in the column is the live new value, and nothing is leaked (what is
\* forgotten without a drop is still owned by the column).
C34_OverwriteDropsOld ==
    Running =>
        \A e \in LiveHandles, T \in Types :
            /\ has_component(World, T, e)
            /\ insert_component(World, e, T, Fresh).status = "ok"
            => LET r   == insert_component(World, e, T, Fresh)
                   loc == LocationOf(e)
                   col == At(archetypes, loc.archetype).columns[T]
                   o   == insert_overwrite_drop(col, loc.row, Fresh)
               IN  /\ At(r.world.archetypes, loc.archetype).columns[T] = o.column
                   /\ At(o.column, loc.row) = Fresh
                   /\ o.dropped = <<At(col, loc.row)>>
                   /\ \A i \in DOMAIN o.dropped : o.dropped[i] # Fresh
                   /\ \A i \in DOMAIN o.forgotten :
                         o.forgotten[i] = At(o.column, loc.row)

\* Archetype::swap_remove: the values its loop hands to call_drop
\* (archetype.rs 71-76), one per column
swap_remove_dropped(arch, index) ==
    IF index >= arch.count
        THEN {}
        ELSE { Val(id, blob_read(arch.columns[id], index)) : id \in DOMAIN arch.columns }

\* World::insert_component: the values dropped during the call.  A call that
\* returns at the is_alive check drops its parameter at the end of its scope
\* (world.rs 91-94); the overwrite branch runs the drop glue itself; the
\* other branches hand the parameter's bytes to a column and forget it
\* (world.rs 162-166, 199-203).
insert_component_dropped(w, entity, T, component) ==
    IF ~is_alive(w, entity)
        THEN { Val(T, component) }
        ELSE LET reg == register_component(w, T)
                 source_archetype == archetype_of(w, entity)
             IN  IF /\ IsSome(source_archetype)
                    /\ (Unwrap(source_archetype).bitmask \cap reg.bit) = reg.bit
                    THEN LET meta == At(w.metas, entity.index)
                             col == At(w.archetypes, meta.location.archetype).columns[T]
                             o == insert_overwrite_drop(col, meta.location.row, component)
                         IN  { Val(T, o.dropped[i]) : i \in DOMAIN o.dropped }
                    ELSE {}

\* World::remove_component: the values dropped during the call: none when it
\* returns early, those of Archetype::swap_remove in the last-component
\* branch (world.rs 263-271), and the one the move_to callback drops for the
\* removed type (world.rs 290-304).
remove_component_dropped(w, entity, T) ==
    IF ~is_alive(w, entity) \/ is_empty(w, entity)
        THEN {}
        ELSE IF T \notin DOMAIN w.bitmap
        THEN {}
        ELSE LET bit == w.bitmap[T]
                 source_archetype == archetype_of(w, entity)
                 meta == At(w.metas, entity.index)
             IN  IF ~IsSome(source_archetype)
                 THEN {}
                 ELSE IF (Unwrap(source_archetype).bitmask \cap bit) # bit
                 THEN {}
                 ELSE IF Unwrap(source_archetype).bitmask \ bit = {}
                 THEN swap_remove_dropped(Unwrap(source_archetype), meta.location.row)
                 ELSE LET mv == move_to(Unwrap(source_archetype), meta.location.row)
                      IN  { Val(id, mv.taken[id]) : id \in DOMAIN mv.taken \cap {T} }

\* World::despawn_entity: the values dropped during the call, those of
\* Archetype::swap_remove (world.rs 368)
despawn_entity_dropped(w, entity) ==
    IF entity.index >= Len(w.metas)
        THEN {}
        ELSE LET meta == At(w.metas, entity.index)
             IN  IF ~is_alive(w, entity)
                 THEN {}
                 ELSE IF ~IsSome(Get(w.archetypes, meta.location.archetype))
                 THEN {}
                 ELSE swap_remove_dropped(At(w.archetypes, meta.location.archetype),
                                          meta.location.row)

\* impl Drop for BlobData: the slots of a column the drop glue runs on, each
\* of the first len once
blob_drop(col) == DOMAIN col

\* The slots (archetype, row) of the columns of type T that hold value v:
\* what the teardown of the world drops as Val(T, v)
Slots(w, T, v) ==
    UNION { { <<i, j>> : j \in { k \in blob_drop(w.archetypes[i].columns[T]) :
                                   w.archetypes[i].columns[T][k] = v } } :
            i \in { a \in DOMAIN w.archetypes : T \in DOMAIN w.archetypes[a].columns } }
Held(w, T, v) == Cardinality(Slots(w, T, v))

\* Every value is accounted for across one call: what the columns hold
\* afterwards and what the call dropped is what they held before and what
\* the call was given.
Conserved(before, after, given, dropped) ==
    \A T \in Types, v \in 1 .. Fresh :
        Held(after, T, v) + (IF Val(T, v) \in dropped THEN 1 ELSE 0)
            = Held(before, T, v) + (IF Val(T, v) \in given THEN 1 ELSE 0)


\* The components the caller gave entity e and has not removed since
GivenTo(e) == { Val(T, stored[e][T]) : T \in DOMAIN stored[e] }

\* ---- C35
\* C35: every component value is dropped exactly once over the world's
\* lifetime.  No column holds a value twice, so the teardown drops each
\* value still stored once; insert_component accounts for every value and
\* drops at most the value it replaces; remove_component drops exactly the
\* removed component of the entity and moves the others; despawn drops
\* exactly the components of the despawned entity.
C35_DroppedExactlyOnce ==
    Running =>
        /\ \A T \in Types, v \in 1 .. Fresh : Held(World, T, v) <= 1
        /\ \A e \in LiveHandles, T \in Types :
              LET r == insert_component(World, e, T, Fresh)
                  d == insert_component_dropped(World, e, T, Fresh)
              IN  r.status = "ok" =>
                      /\ d = { x \in GivenTo(e) : x[1] = T }
                      /\ Conserved(World, r.world, {Val(T, Fresh)}, d)
        /\ \A e \in LiveHandles, T \in Types :
              LET r == remove_component(World, e, T)
                  d == remove_component_dropped(World, e, T)
              IN  r.status = "ok" =>
                      /\ d = { x \in GivenTo(e) : x[1] = T }
                      /\ Conserved(World, r.world, {}, d)
        /\ \A e \in LiveHandles :
              LET r == despawn_entity(World, e)
                  d == despawn_entity_dropped(World, e)
              IN  r.status = "ok" =>
                      /\ d = GivenTo(e)
                      /\ Conserved(World, r.world, {}, d)

\* ---- C36
\* C36: remove_component<T>(e) on a live entity that is EMPTY, or whose
\* archetype lacks T's bit, or for a type T that was never registered,
\* returns normally, leaves every field of the world as it was and does not
\* register T.
C36_RemoveAbsentNoOp ==
    Running =>
        \A e \in LiveHandles, T \in Types :
            \/ is_empty(World, e)
            \/ T \notin DOMAIN bitmap
            \/ /\ IsSome(archetype_of(World, e))
               /\ Unwrap(archetype_of(World, e)).bitmask \cap bitmap[T] = {}
            => LET r == remove_component(World, e, T)
               IN  /\ r.status = "ok"
                   /\ r.world = World
                   /\ DOMAIN r.world.bitmap = DOMAIN bitmap
                   /\ r.world.next_bitmask = next_bitmask

\* A live EMPTY entity, and a live entity with components whose archetype
\* lacks the bit of a registered type: removing that type changes nothing.
C36_Witness ==
    /\ Running
    /\ \E e \in LiveHandles : is_empty(World, e)
    /\ \E e \in LiveHandles, T \in DOMAIN bitmap :
          /\ IsSome(archetype_of(World, e))
          /\ Unwrap(archetype_of(World, e)).bitmask # {}
          /\ Unwrap(archetype_of(World, e)).bitmask \cap bitmap[T] = {}
          /\ remove_component(World, e, T).world = World

\* ---- C37
IsPrefix(s, t) == Len(s) <= Len(t) /\ SubSeq(t, 1, Len(s)) = s
StrictlyIncreasing(s) == \A i, j \in DOMAIN s : i < j => s[i] < s[j]

\* C37: archetypes and cache entries are append-only.  No step removes or
\* reorders an archetype or changes the bitmask at an existing index; every
\* cache key stays, its high_water_mark never decreases, its matched list
\* after the step has the list before the step as a prefix, and the list is
\* in strictly increasing index order.
C37_AppendOnly ==
    [][ /\ Len(archetypes') >= Len(archetypes)
        /\ \A i \in DOMAIN archetypes :
              archetypes'[i].bitmask = archetypes[i].bitmask
        /\ \A key \in DOMAIN cache :
              /\ key \in DOMAIN cache'
              /\ cache'[key].high_water_mark >= cache[key].high_water_mark
              /\ IsPrefix(cache[key].archetypes, cache'[key].archetypes)
        /\ \A key \in DOMAIN cache' : StrictlyIncreasing(cache'[key].archetypes)
      ]_vars

\* A cached entry with matches that is behind the archetype list, and whose
\* next preparation appends to it.
C37_Witness ==
    /\ Running
    /\ Len(archetypes) >= 2
    /\ \E q \in Queries :
          /\ query_registered(bitmap, q)
          /\ KeyOf(q) \in DOMAIN cache
          /\ cache[KeyOf(q)].archetypes # <<>>
          /\ LET entry == prepare(archetypes, bitmap, cache, q).cache[KeyOf(q)]
             IN  /\ entry.high_water_mark > cache[KeyOf(q)].high_water_mark
                 /\ Len(entry.archetypes) > Len(cache[KeyOf(q)].archetypes)
                 /\ IsPrefix(cache[KeyOf(q)].archetypes, entry.archetypes)

\* ---- C38
\* The generations of the slots of w, by index
Generations(w) == [i \in DOMAIN w.metas |-> w.metas[i].generation]
\* Whether w2 has the generations of w at every slot of w
SameGenerations(w, w2) ==
    \A i \in DOMAIN w.metas : w2.metas[i].generation = w.metas[i].generation
\* A handle never issued before, with a generation above that of every
\* handle issued for its index
NewHandle(entity) ==
    /\ entity \notin handles
    /\ \A h \in handles : h.index = entity.index => h.generation < entity.generation

\* C38: no two calls of spawn and spawn_empty return the same (index,
\* generation) handle.  The handle a creation returns was never issued, and
\* its generation is above that of every handle issued for its index; a
\* creation changes no generation; a despawn that frees a slot raises the
\* generation of its slot by exactly one and no other, and a despawn that
\* frees none changes no generation.
C38_HandlesNeverRepeat ==
    Running =>
        /\ CanCreate(World) =>
              /\ \E r \in {spawn_empty(World)} :
                    /\ NewHandle(r.entity)
                    /\ SameGenerations(World, r.world)
              /\ \A b \in BundlesOf(Fresh) :
                    \E r \in {spawn(World, b)} :
                        r.status = "ok" =>
                            /\ NewHandle(r.entity)
                            /\ SameGenerations(World, r.world)
        /\ \A e \in Callable :
              \E r \in {despawn_entity(World, e)} :
                  IF r.status = "ok" /\ r.world.free # free
                    THEN /\ is_alive(World, e)
                         /\ ~is_alive(r.world, e)
                         /\ Generations(r.world) =
                                [Generations(World) EXCEPT ![e.index + 1] = @ + 1]
                    ELSE Generations(r.world) = Generations(World)

\* A slot that has been recycled (two handles were issued for it) is free
\* again, and the next creation hands it out with a third generation.
C38_Witness ==
    /\ Running
    /\ free # <<>>
    /\ \E h1, h2 \in handles :
          /\ h1.index = h2.index
          /\ h1.generation < h2.generation
          /\ spawn_empty(World).entity.index = h1.index
          /\ spawn_empty(World).entity.generation > h2.generation

====
